---- MODULE Spec2Model ----
(***************************************************************************)
(* Model of the PTC-to-LLVM instruction translator                         *)
(* (src/instructiontranslator.cpp).                                        *)
(*                                                                         *)
(* The generated function is a sequence of basic blocks, each a sequence   *)
(* of emitted operations.  The IRBuilder is its insertion block (the       *)
(* insertion point is always the end of that block, as SetInsertPoint(BB)  *)
(* leaves it).  assert() and llvm_unreachable() are fatal: they set        *)
(* `fatal`, after which nothing runs.                                      *)
(***************************************************************************)
EXTENDS Integers, Sequences, FiniteSets, TLC

\* ---------------------------------------------------------------- bounds
MaxSteps == 3     \* calls made by the driving loop
MaxPC == 2        \* original addresses are 1..MaxPC
MaxLabel == 2     \* PTC label ids are 1..MaxLabel
MaxCallOut == 2   \* a call-like instruction declares 0..MaxCallOut outputs
MaxCallIn == 1    \* and 0..MaxCallIn inputs
MaxContracts == 2 \* a pipe declares 0..MaxContracts contracts

PCs == 1..MaxPC
Labels == 1..MaxLabel

\* Temporaries the instructions name.  EnvTemp is the process-state base
\* (Variables.isEnv), PCTemp the program-counter slot (JumpTargets.isPCReg),
\* GPTemp any other register.
EnvTemp == 0
PCTemp == 1
GPTemp == 2
Temps == {EnvTemp, PCTemp, GPTemp}

\* ------------------------------------------------------- opcode enumeration
Ops32 ==
  { "add2_i32", "add_i32", "andc_i32", "and_i32", "brcond2_i32", "brcond_i32",
    "bswap16_i32", "bswap32_i32", "deposit_i32", "div2_i32", "div_i32",
    "divu2_i32", "divu_i32", "eqv_i32", "ext16s_i32", "ext16u_i32",
    "ext8s_i32", "ext8u_i32", "ld16s_i32", "ld16u_i32", "ld8s_i32",
    "ld8u_i32", "ld_i32", "movcond_i32", "mov_i32", "movi_i32", "mul_i32",
    "muls2_i32", "mulsh_i32", "mulu2_i32", "muluh_i32", "nand_i32", "neg_i32",
    "nor_i32", "not_i32", "orc_i32", "or_i32", "qemu_ld_i32", "qemu_st_i32",
    "rem_i32", "remu_i32", "rotl_i32", "rotr_i32", "sar_i32", "setcond2_i32",
    "setcond_i32", "shl_i32", "shr_i32", "st16_i32", "st8_i32", "st_i32",
    "sub2_i32", "sub_i32", "trunc_shr_i32", "xor_i32" }

Ops64 ==
  { "add2_i64", "add_i64", "andc_i64", "and_i64", "brcond_i64", "bswap16_i64",
    "bswap32_i64", "bswap64_i64", "deposit_i64", "div2_i64", "div_i64",
    "divu2_i64", "divu_i64", "eqv_i64", "ext16s_i64", "ext16u_i64",
    "ext32s_i64", "ext32u_i64", "ext8s_i64", "ext8u_i64", "ld16s_i64",
    "ld16u_i64", "ld32s_i64", "ld32u_i64", "ld8s_i64", "ld8u_i64", "ld_i64",
    "movcond_i64", "mov_i64", "movi_i64", "mul_i64", "muls2_i64", "mulsh_i64",
    "mulu2_i64", "muluh_i64", "nand_i64", "neg_i64", "nor_i64", "not_i64",
    "orc_i64", "or_i64", "qemu_ld_i64", "qemu_st_i64", "rem_i64", "remu_i64",
    "rotl_i64", "rotr_i64", "sar_i64", "setcond_i64", "shl_i64", "shr_i64",
    "st16_i64", "st32_i64", "st8_i64", "st_i64", "sub2_i64", "sub_i64",
    "xor_i64" }

Ops0 ==
  { "br", "call", "debug_insn_start", "discard", "exit_tb", "goto_tb",
    "set_label" }

\* The PTCOpcode enumeration as the translator knows it, and one opcode the
\* decoder may produce that the translator has no case for.
Enumeration == Ops32 \cup Ops64 \cup Ops0
UnknownOpcode == "unknown"
Opcodes == Enumeration \cup {UnknownOpcode}

\* The driving loop hands op_call to translateCall and op_debug_insn_start to
\* newInstruction; everything else goes to translate.
TranslateOpcodes == Opcodes \ {"call", "debug_insn_start"}

\* ------------------------------------------------------------ opcode classes
W(base) == {base \o "_i32", base \o "_i64"}

MoviOps == W("movi")
MovOps == W("mov")
SetcondOps == W("setcond")
MovcondOps == W("movcond")
QemuLdOps == W("qemu_ld")
QemuStOps == W("qemu_st")
LdOps ==
  { "ld8u_i32", "ld8s_i32", "ld16u_i32", "ld16s_i32", "ld_i32", "ld8u_i64",
    "ld8s_i64", "ld16u_i64", "ld16s_i64", "ld32u_i64", "ld32s_i64", "ld_i64" }
StOps ==
  { "st8_i32", "st16_i32", "st_i32", "st8_i64", "st16_i64", "st32_i64",
    "st_i64" }
AddOps == W("add")
SubOps == W("sub")
MulOps == W("mul")
DivOps == W("div")
DivuOps == W("divu")
RemOps == W("rem")
RemuOps == W("remu")
AndOps == W("and")
OrOps == W("or")
XorOps == W("xor")
ShlOps == W("shl")
ShrOps == W("shr")
SarOps == W("sar")
Add2Ops == W("add2")
Sub2Ops == W("sub2")
Mulu2Ops == W("mulu2")
BrcondOps == W("brcond")
BinaryOps ==
  AddOps \cup SubOps \cup MulOps \cup DivOps \cup DivuOps \cup RemOps \cup
  RemuOps \cup AndOps \cup OrOps \cup XorOps \cup ShlOps \cup ShrOps \cup
  SarOps
Div2Ops == W("div2") \cup W("divu2")
RotOps == W("rotl") \cup W("rotr")
DepositOps == W("deposit")
ExtOps ==
  { "ext8s_i32", "ext16s_i32", "ext8u_i32", "ext16u_i32", "ext8s_i64",
    "ext16s_i64", "ext32s_i64", "ext8u_i64", "ext16u_i64", "ext32u_i64" }
NotOps == W("not")
NegOps == W("neg")
AndcOps == W("andc") \cup W("orc") \cup W("eqv")
NandOps == W("nand")
NorOps == W("nor")
BswapOps ==
  { "bswap16_i32", "bswap32_i32", "bswap16_i64", "bswap32_i64",
    "bswap64_i64" }
BranchOps == { "br", "brcond_i32", "brcond2_i32", "brcond_i64" }
AddSub2Ops == Add2Ops \cup Sub2Ops
Mul2Ops == W("mulu2") \cup W("muls2")
UnimplementedOps ==
  { "muluh_i32", "mulsh_i32", "muluh_i64", "mulsh_i64", "setcond2_i32",
    "trunc_shr_i32" }

\* Groups by declared arity.
In4Ops == MovcondOps \cup AddSub2Ops \cup {"brcond2_i32", "setcond2_i32"}
In2Ops ==
  SetcondOps \cup QemuStOps \cup StOps \cup BinaryOps \cup RotOps \cup DepositOps
  \cup AndcOps \cup NandOps \cup NorOps \cup Mul2Ops \cup BrcondOps
  \cup { "muluh_i32", "mulsh_i32", "muluh_i64", "mulsh_i64" }
In1Ops ==
  MovOps \cup QemuLdOps \cup LdOps \cup ExtOps \cup NotOps \cup NegOps
  \cup BswapOps \cup {"trunc_shr_i32"}
Out2Ops == Div2Ops \cup AddSub2Ops \cup Mul2Ops
Out0Ops ==
  QemuStOps \cup StOps \cup BranchOps
  \cup { "set_label", "exit_tb", "goto_tb", "call", "debug_insn_start",
         UnknownOpcode }

\* ------------------------------------------------------------ semantic tables
\* getRegisterSize: 32, 64, 0, or -1 for llvm_unreachable("Unexpected opcode").
getRegisterSize(Opcode) ==
  IF Opcode \in Ops32 THEN 32
  ELSE IF Opcode \in Ops64 THEN 64
  ELSE IF Opcode \in Ops0 THEN 0
  ELSE -1

NotBinary == "llvm_unreachable"

\* An opcodeToBinaryOp that maps the logical shift right to the arithmetic
\* one and knows no wide subtraction.
opcodeToBinaryOp_ShrArithmetic(Opcode) ==
  CASE Opcode \in AddOps \cup Add2Ops -> "Add"
    [] Opcode \in SubOps -> "Sub"
    [] Opcode \in MulOps -> "Mul"
    [] Opcode \in DivOps -> "SDiv"
    [] Opcode \in DivuOps -> "UDiv"
    [] Opcode \in RemOps -> "SRem"
    [] Opcode \in RemuOps -> "URem"
    [] Opcode \in AndOps -> "And"
    [] Opcode \in OrOps -> "Or"
    [] Opcode \in XorOps -> "Xor"
    [] Opcode \in ShlOps -> "Shl"
    [] Opcode \in ShrOps \cup SarOps -> "AShr"
    [] OTHER -> NotBinary

\* opcodeToBinaryOp: the LLVM binary operation, or NotBinary for the default
\* case, llvm_unreachable("PTC opcode is not a binary operator").
opcodeToBinaryOp(Opcode) ==
  CASE Opcode \in AddOps \cup Add2Ops -> "Add"
    [] Opcode \in SubOps \cup Sub2Ops -> "Sub"
    [] Opcode \in MulOps -> "Mul"
    [] Opcode \in DivOps -> "SDiv"
    [] Opcode \in DivuOps -> "UDiv"
    [] Opcode \in RemOps -> "SRem"
    [] Opcode \in RemuOps -> "URem"
    [] Opcode \in AndOps -> "And"
    [] Opcode \in OrOps -> "Or"
    [] Opcode \in XorOps -> "Xor"
    [] Opcode \in ShlOps -> "Shl"
    [] Opcode \in ShrOps -> "LShr"
    [] Opcode \in SarOps -> "AShr"
    [] OTHER -> NotBinary

\* Instruction::inArgCount: what ptc_instruction_in_arg_count reports, the
\* opcode's input arity in the PTC opcode definitions.  It is the number of
\* InArguments entries translate loads.
inArgCount(Opcode) ==
  CASE Opcode \in In4Ops -> 4
    [] Opcode \in Div2Ops -> 3
    [] Opcode \in In2Ops -> 2
    [] Opcode \in In1Ops -> 1
    [] OTHER -> 0

\* Instruction::outArgCount: what ptc_instruction_out_arg_count reports, the
\* opcode's declared output arity in the PTC opcode definitions.
outArgCount(Opcode) ==
  CASE Opcode \in Out2Ops -> 2
    [] Opcode \in Out0Ops -> 0
    [] OTHER -> 1

\* ------------------------------------------------------------------- values
\* A Target Value: a compile-time ConstantInt or the result of an emitted
\* instruction.
ConstantInt(v) == [const |-> TRUE, val |-> v]
InstValue == [const |-> FALSE, val |-> 0]

\* ------------------------------------------------------------- emitted code
\* One emitted operation: its kind and, for branches, the target block and
\* the false-edge block (0 when absent).
Op(k) == [k |-> k, t |-> 0, f |-> 0]
BrOp(t) == [k |-> "br", t |-> t, f |-> 0]
CondBrOp(t, f) == [k |-> "condbr", t |-> t, f |-> f]
Terminators == {"br", "condbr", "unreachable"}

\* ------------------------------------------------- translator state helpers
\* The part of the state translateOpcode works on is passed as a record st:
\*   blocks  every basic block created so far (index = identity),
\*   order   TheFunction's block list,
\*   cur     Builder's insertion block,
\*   Blocks  the translator's Blocks vector,
\*   LBB     LabeledBasicBlocks (0 = no entry),
\*   local   the per-block variable state of the VariableManager.

\* Builder.Create*: append operations at the insertion point.
Emit(st, ops) == [st EXCEPT !.blocks[st.cur].ops = @ \o ops]

\* BasicBlock::Create(Context, Name, TheFunction): a new empty block appended
\* to the function's block list.  Its identity is NewBlockId(st).
NewBlockId(st) == Len(st.blocks) + 1
CreateBlock(st, label) ==
  [st EXCEPT !.blocks = Append(@, [label |-> label, ops |-> <<>>]),
             !.order = Append(@, Len(st.blocks) + 1)]

\* Fallthrough->removeFromParent(); getBasicBlockList().push_back(Fallthrough)
MoveToBottom(st, b) ==
  [st EXCEPT !.order = Append(SelectSeq(@, LAMBDA x : x # b), b)]

\* Blocks.push_back(B); Builder.SetInsertPoint(B); Variables.newBasicBlock()
EnterBlock(st, b) ==
  [st EXCEPT !.Blocks = Append(@, b), !.cur = b, !.local = {}]

\* IRBuilder::CreateTrunc/ZExt/SExt return the operand itself, emitting
\* nothing, when the operand already has the destination type.
Cast(kind, from, to) == IF from = to THEN <<>> ELSE <<Op(kind)>>

\* VariableManager::getByEnvOffset: the width of the state field at an
\* offset (the store collaborator decides it; odd offsets are 32-bit fields
\* here, even ones 64-bit).
EnvFieldBits(offset) == IF offset % 2 = 1 THEN 32 ELSE 64

\* Outcomes of translateOpcode: result values, the recoverable
\* std::errc::invalid_argument, or a fatal llvm_unreachable/assert.
Ok(st, res, binop) ==
  [status |-> "ok", st |-> st, res |-> res, binop |-> binop, why |-> ""]
Err(st) ==
  [status |-> "error", st |-> st, res |-> <<>>, binop |-> "", why |-> ""]
Fatal(st, why) ==
  [status |-> "fatal", st |-> st, res |-> <<>>, binop |-> "", why |-> why]

\* The byte-swap case's inner switch: the swap width it leaves the switch
\* with, 0 when control reaches default, llvm_unreachable("Unexpected
\* opcode").  No label has a break, so every label falls through to default.
BswapSwapType(Opcode) ==
  CASE Opcode \in {"bswap16_i32", "bswap16_i64"} -> 0
    [] Opcode \in {"bswap32_i32", "bswap32_i64"} -> 0
    [] Opcode = "bswap64_i64" -> 0
    [] OTHER -> 0

\* The width of the extension source type.
ExtSourceBits(Opcode) ==
  CASE Opcode \in {"ext8s_i32", "ext8u_i32", "ext8s_i64", "ext8u_i64"} -> 8
    [] Opcode \in {"ext16s_i32", "ext16u_i32", "ext16s_i64", "ext16u_i64"} -> 16
    [] OTHER -> 32
ExtIsSigned(Opcode) ==
  Opcode \in {"ext8s_i32", "ext8s_i64", "ext16s_i32", "ext16s_i64",
              "ext32s_i64"}

\* Variables.isEnv(dyn_cast<LoadInst>(V)->getPointerOperand()): every input
\* value is the load translate emitted for a temporary, so the base is the
\* process state exactly when that temporary is the env temporary.
isEnv(temp) == temp = EnvTemp

\* set_label that never looks the label up.
translateSetLabel_AlwaysCreate(ConstArguments, st) ==
  LET Label == ConstArguments[1]
      Fallthrough == NewBlockId(st)
      s1 == [CreateBlock(st, Label) EXCEPT !.LBB[Label] = Fallthrough]
      s2 == Emit(s1, <<BrOp(Fallthrough)>>)
  IN Ok(EnterBlock(s2, Fallthrough), <<>>, "")

\* The set_label case.
translateSetLabel(ConstArguments, st) ==
  LET Label == ConstArguments[1]
      Existing == st.LBB[Label]
  IN IF Existing = 0
       THEN LET Fallthrough == NewBlockId(st)
                s1 == [CreateBlock(st, Label) EXCEPT !.LBB[Label] = Fallthrough]
                s2 == Emit(s1, <<BrOp(Fallthrough)>>)
            IN Ok(EnterBlock(s2, Fallthrough), <<>>, "")
       ELSE IF st.blocks[Existing].ops # <<>>
         THEN Fatal(st, "assert: labeled block is not empty")
         ELSE LET s1 == MoveToBottom(st, Existing)
                  s2 == Emit(s1, <<BrOp(Existing)>>)
              IN Ok(EnterBlock(s2, Existing), <<>>, "")

\* A branch that moves the insertion point into the block it branches to.
translateBranch_IntoTarget(Opcode, ConstArguments, st) ==
  LET Label == ConstArguments[Len(ConstArguments)]
      s1 == CreateBlock(st, 0)
      Existing == s1.LBB[Label]
      Target == IF Existing = 0 THEN NewBlockId(s1) ELSE Existing
      s2 == IF Existing = 0
              THEN [CreateBlock(s1, Label) EXCEPT !.LBB[Label] = Target]
              ELSE s1
  IN Ok(EnterBlock(Emit(s2, <<BrOp(Target)>>), Target), <<>>, "")

\* The br / brcond_i32 / brcond2_i32 / brcond_i64 case.
translateBranch(Opcode, ConstArguments, st) ==
  LET Label == ConstArguments[Len(ConstArguments)]
      Fallthrough == NewBlockId(st)
      s1 == CreateBlock(st, 0)
      Existing == s1.LBB[Label]
      Target == IF Existing = 0 THEN NewBlockId(s1) ELSE Existing
      s2 == IF Existing = 0
              THEN [CreateBlock(s1, Label) EXCEPT !.LBB[Label] = Target]
              ELSE s1
  IN IF Opcode = "br"
       THEN Ok(EnterBlock(Emit(s2, <<BrOp(Target)>>), Fallthrough), <<>>, "")
       ELSE IF Opcode \in {"brcond_i32", "brcond_i64"}
         THEN Ok(EnterBlock(Emit(s2, <<Op("icmp"), CondBrOp(Target, Fallthrough)>>),
                            Fallthrough), <<>>, "")
         ELSE Fatal(s2, "llvm_unreachable: Unhandled opcode")

\* exit_tb that ends the block and leaves the insertion point in it.
translateExitTB_NoNewBlock(st) ==
  Ok(Emit(st, <<Op("call_exitTB"), Op("unreachable")>>), <<>>, "")

\* The exit_tb case.
translateExitTB(st) ==
  LET NextBB == NewBlockId(st)
      s1 == Emit(st, <<Op("call_exitTB"), Op("unreachable")>>)
  IN Ok(EnterBlock(CreateBlock(s1, 0), NextBB), <<>>, "")

\* A qemu_ld / qemu_st case that answers with the recoverable failure.
translateQemuLdSt_Refuse(Opcode, RegisterSize, mem, mismatch, st) == Err(st)

\* A qemu_ld / qemu_st case that swaps single bytes too.
translateQemuLdSt_SwapBytes(Opcode, RegisterSize, mem, mismatch, st) ==
  LET Alignment == IF mem.access = "unaligned" THEN "1" ELSE "defaultAlignment"
      Access(k) == Op(k) @@ [bits |-> mem.size, align |-> Alignment]
      BSwap == IF mismatch
                 THEN <<Op("call_bswap") @@ [bits |-> mem.size]>>
                 ELSE <<>>
  IN IF mem.access = "unknown"
       THEN Fatal(st, "assert: unknown memory access type")
       ELSE IF Opcode \in QemuLdOps
         THEN Ok(Emit(st, <<Op("inttoptr"), Access("load_mem")>> \o BSwap
                          \o Cast(IF mem.sign THEN "sext" ELSE "zext",
                                  mem.size, RegisterSize)),
                 <<InstValue>>, "")
         ELSE Ok(Emit(st, <<Op("inttoptr")>>
                          \o Cast("trunc", RegisterSize, mem.size)
                          \o BSwap \o <<Access("store_mem")>>),
                 <<>>, "")

\* The qemu_ld / qemu_st case.  mem is what ptc.parse_load_store_arg and
\* ptc_get_memory_access_size make of ConstArguments[0]; mismatch says
\* whether source and target endianness differ.  The memory access carries
\* its width and its alignment, the latter 1 or what
\* SourceArchitecture.defaultAlignment() gives; the byte swap its width.
translateQemuLdSt(Opcode, RegisterSize, mem, mismatch, st) ==
  LET Alignment == IF mem.access = "unaligned" THEN "1" ELSE "defaultAlignment"
      Access(k) == Op(k) @@ [bits |-> mem.size, align |-> Alignment]
      BSwap == IF mem.size # 8 /\ mismatch
                 THEN <<Op("call_bswap") @@ [bits |-> mem.size]>>
                 ELSE <<>>
  IN IF mem.access = "unknown"
       THEN Fatal(st, "assert: unknown memory access type")
       ELSE IF Opcode \in QemuLdOps
         THEN Ok(Emit(st, <<Op("inttoptr"), Access("load_mem")>> \o BSwap
                          \o Cast(IF mem.sign THEN "sext" ELSE "zext",
                                  mem.size, RegisterSize)),
                 <<InstValue>>, "")
         ELSE Ok(Emit(st, <<Op("inttoptr")>>
                          \o Cast("trunc", RegisterSize, mem.size)
                          \o BSwap \o <<Access("store_mem")>>),
                 <<>>, "")

\* The state-field load case (ld8u ... ld_i64).
translateLd(ConstArguments, InArguments, RegisterSize, st) ==
  IF ~isEnv(InArguments[1])
    THEN Err(st)
    ELSE Ok(Emit(st, <<Op("load_env")>>
                     \o Cast("zextortrunc", EnvFieldBits(ConstArguments[1]),
                             RegisterSize)),
            <<InstValue>>, "")

\* The state-field store case (st8 ... st_i64).
translateSt(ConstArguments, InArguments, RegisterSize, st) ==
  IF ~isEnv(InArguments[2])
    THEN Err(st)
    ELSE Ok(Emit(st, Cast("zext", RegisterSize, EnvFieldBits(ConstArguments[1]))
                     \o <<Op("store_env")>>),
            <<>>, "")

\* A div2 / divu2 case that returns the quotient only.
translateDiv2_QuotientOnly(st) ==
  Ok(Emit(st, <<Op("binop"), Op("binop")>>), <<InstValue>>, "")

\* The div2 / divu2 case: a division and a remainder.
translateDiv2(st) ==
  Ok(Emit(st, <<Op("binop"), Op("binop")>>), <<InstValue, InstValue>>, "")

\* translateOpcode.  InArguments are the temporaries whose loaded values are
\* the inputs; all of them have the opcode's register type.
translateOpcode(Opcode, ConstArguments, InArguments, mem, mismatch, st) ==
  LET RegisterSize == getRegisterSize(Opcode)
      One(ops) == Ok(Emit(st, ops), <<InstValue>>, "")
  IN
  CASE RegisterSize = -1 -> Fatal(st, "llvm_unreachable: Unexpected opcode")
    [] Opcode \in MoviOps -> Ok(st, <<ConstantInt(ConstArguments[1])>>, "")
    [] Opcode = "discard" ->
         \* RegisterSize is 0, so RegisterType is still nullptr when
         \* ConstantInt::get dereferences it.
         Fatal(st, "null RegisterType")
    [] Opcode \in MovOps -> One(Cast("trunc", RegisterSize, RegisterSize))
    [] Opcode \in SetcondOps -> One(<<Op("icmp")>> \o Cast("zext", 1, RegisterSize))
    [] Opcode \in MovcondOps -> One(<<Op("icmp"), Op("select")>>)
    [] Opcode \in QemuLdOps \cup QemuStOps ->
         translateQemuLdSt(Opcode, RegisterSize, mem, mismatch, st)
    [] Opcode \in LdOps -> translateLd(ConstArguments, InArguments, RegisterSize, st)
    [] Opcode \in StOps -> translateSt(ConstArguments, InArguments, RegisterSize, st)
    [] Opcode \in BinaryOps ->
         LET BinaryOp == opcodeToBinaryOp(Opcode)
         IN IF BinaryOp = NotBinary
              THEN Fatal(st, "llvm_unreachable: PTC opcode is not a binary operator")
              ELSE Ok(Emit(st, <<Op("binop")>>), <<InstValue>>, BinaryOp)
    [] Opcode \in Div2Ops -> translateDiv2(st)
    [] Opcode \in RotOps ->
         One(<<Op("binop"), Op("binop"), Op("binop"), Op("binop")>>)
    [] Opcode \in DepositOps ->
         IF ConstArguments[1] = RegisterSize
           THEN Ok(st, <<InstValue>>, "")
           ELSE One(<<Op("binop"), Op("binop"), Op("binop"), Op("binop")>>)
    [] Opcode \in ExtOps ->
         One(Cast("trunc", RegisterSize, ExtSourceBits(Opcode))
             \o Cast(IF ExtIsSigned(Opcode) THEN "sext" ELSE "zext",
                     ExtSourceBits(Opcode), RegisterSize))
    [] Opcode \in NotOps \cup NegOps -> One(<<Op("binop")>>)
    [] Opcode \in AndcOps \cup NandOps \cup NorOps ->
         One(<<Op("binop"), Op("binop")>>)
    [] Opcode \in BswapOps ->
         LET SwapBits == BswapSwapType(Opcode)
         IN IF SwapBits = 0
              THEN Fatal(st, "llvm_unreachable: Unexpected opcode (bswap)")
              ELSE One(Cast("trunc", RegisterSize, SwapBits)
                       \o <<Op("call_bswap")>>
                       \o Cast("zext", SwapBits, RegisterSize))
    [] Opcode = "set_label" -> translateSetLabel(ConstArguments, st)
    [] Opcode \in BranchOps -> translateBranch(Opcode, ConstArguments, st)
    [] Opcode = "exit_tb" -> translateExitTB(st)
    [] Opcode = "goto_tb" -> Ok(st, <<>>, "")
    [] Opcode \in AddSub2Ops ->
         LET BinaryOp == opcodeToBinaryOp(Opcode)
             Wide == 2 * RegisterSize
         IN IF BinaryOp = NotBinary
              THEN Fatal(st, "llvm_unreachable: PTC opcode is not a binary operator")
              ELSE Ok(Emit(st, <<Op("sext"), Op("sext"), Op("sext"), Op("sext"),
                                 Op("binop"), Op("binop"), Op("binop"),
                                 Op("binop"), Op("binop")>>
                               \o Cast("trunc", Wide, RegisterSize)
                               \o <<Op("binop")>>
                               \o Cast("trunc", Wide, RegisterSize)),
                      <<InstValue, InstValue>>, BinaryOp)
    [] Opcode \in Mul2Ops ->
         LET Wide == 2 * RegisterSize
             Ext == IF Opcode \in Mulu2Ops THEN "zext" ELSE "sext"
         IN Ok(Emit(st, <<Op(Ext), Op(Ext), Op("binop")>>
                        \o Cast("trunc", Wide, RegisterSize)
                        \o <<Op("binop")>>
                        \o Cast("trunc", Wide, RegisterSize)),
               <<InstValue, InstValue>>, "")
    [] Opcode \in UnimplementedOps ->
         Fatal(st, "llvm_unreachable: Instruction not implemented")
    [] OTHER -> Fatal(st, "llvm_unreachable: Unknown opcode")

\* -------------------------------------------------------------------- state
VARIABLES
  blocks,             \* every basic block: [label, ops]
  order,              \* TheFunction's block list
  cur,                \* Builder's insertion block
  Blocks,             \* InstructionTranslator::Blocks
  LabeledBasicBlocks, \* label -> block, 0 when absent
  local,              \* temporaries the VariableManager holds for this block
  markers,            \* every newpc marker created: [pc, len], len 0 = open
  LastMarker,         \* index of the open marker, 0 for nullptr
  JT,                 \* JumpTargetManager: address -> block, 0 when absent
  regInstr,           \* JumpTargetManager: registered <<address, marker>>
  mismatch,           \* source and target endianness differ
  definedLabels,      \* labels the instruction stream has already set
  curPC,              \* the driving loop's PC, 0 before the first instruction
  steps,              \* calls made so far
  fatal,              \* "" or the assertion / llvm_unreachable that fired
  last,               \* the last call made and what it returned
  calc,               \* a run of generated code: its inputs and its results
  pipe                \* a pipe, the Input handed to it and what it answered

vars ==
  << blocks, order, cur, Blocks, LabeledBasicBlocks, local, markers,
     LastMarker, JT, regInstr, mismatch, definedLabels, curPC, steps, fatal,
     last, calc, pipe >>

St ==
  [ blocks |-> blocks, order |-> order, cur |-> cur, Blocks |-> Blocks,
    LBB |-> LabeledBasicBlocks, local |-> local ]

SetSt(s) ==
  /\ blocks' = s.blocks
  /\ order' = s.order
  /\ cur' = s.cur
  /\ Blocks' = s.Blocks
  /\ LabeledBasicBlocks' = s.LBB
  /\ local' = s.local

\* The record kept of the last call: which entry point, its operands and
\* what it returned.
NoCall ==
  [ call |-> "none", ret |-> FALSE, opcode |-> "", nres |-> 0, binop |-> "",
    asked |-> {}, pc |-> 0, first |-> FALSE, args |-> <<>>, helper |-> "",
    outs |-> <<>>, res |-> <<>>,
    mem |-> [size |-> 8, sign |-> FALSE, access |-> "aligned"] ]

\* No pipe has been asked anything.  A ContainerToTargetsMap is the set of
\* the targets it holds; called is whether areRequirementsMet has returned,
\* ret what it returned and ToCheck its local map when it returned.
NoPipe ==
  [ Contracts |-> <<>>, Input |-> {}, called |-> FALSE, ret |-> FALSE,
    ToCheck |-> {} ]

\* Block 1 is the entry block the driving loop points the Builder at.  The
\* JumpTargetManager is shared and handed in: it may already hold empty
\* blocks for addresses scheduled for exploration.  Endianness is the set of
\* values of SourceArchitecture.endianess() != TargetArchitecture.endianess()
\* to start from.
RECURSIVE SetToSeq(_)
SetToSeq(S) ==
  IF S = {} THEN <<>>
  ELSE LET x == CHOOSE y \in S : \A z \in S : y <= z
       IN <<x>> \o SetToSeq(S \ {x})

IndexOf(seq, x) == CHOOSE i \in 1..Len(seq) : seq[i] = x

\* No generated code has been run.  A value of w bits is the set of the
\* positions, 0 the least significant, of its one bits.
NoCalc ==
  [ stage |-> 0, opcode |-> "", in0 |-> {}, in1 |-> {}, in2 |-> {},
    in3 |-> {}, n |-> 0, p |-> 0, l |-> 0, bits |-> {}, out |-> <<>>,
    back |-> <<>> ]

TranslatorInit(Scheduled, Endianness) ==
    LET sched == SetToSeq(Scheduled)
    IN /\ blocks = [i \in 1..(1 + Len(sched)) |-> [label |-> 0, ops |-> <<>>]]
       /\ order = [i \in 1..(1 + Len(sched)) |-> i]
       /\ cur = 1
       /\ Blocks = <<>>
       /\ LabeledBasicBlocks = [l \in Labels |-> 0]
       /\ local = {}
       /\ markers = <<>>
       /\ LastMarker = 0
       /\ JT = [a \in PCs |-> IF a \in Scheduled THEN 1 + IndexOf(sched, a) ELSE 0]
       /\ regInstr = {}
       /\ mismatch \in Endianness
       /\ definedLabels = {}
       /\ curPC = 0
       /\ steps = 0
       /\ fatal = ""
       /\ last = NoCall

InitWith(Endianness) ==
  /\ \E Scheduled \in SUBSET PCs : TranslatorInit(Scheduled, Endianness)
  /\ calc = NoCalc
  /\ pipe = NoPipe

\* Source and target of the same endianness: only the guest memory accesses,
\* which SpecOpcodes covers for both cases, read the difference.
Init == InitWith({FALSE})
InitOpcodes == InitWith(BOOLEAN)

\* ------------------------------------------------------ boundary tracker
\* closeLastInstruction that forgets the marker without setting its length.
closeLastInstruction_NoLength(mk, lm, PC) ==
  IF lm = 0
    THEN [why |-> "assert: LastMarker != nullptr", markers |-> mk, LastMarker |-> lm]
    ELSE IF ~(PC > mk[lm].pc)
      THEN [why |-> "assert: PC > StartPC", markers |-> mk, LastMarker |-> lm]
      ELSE [why |-> "", markers |-> mk, LastMarker |-> 0]

\* closeLastInstruction that accepts PC == StartPC.
closeLastInstruction_AllowEqual(mk, lm, PC) ==
  IF lm = 0
    THEN [why |-> "assert: LastMarker != nullptr", markers |-> mk, LastMarker |-> lm]
    ELSE IF ~(PC >= mk[lm].pc)
      THEN [why |-> "assert: PC > StartPC", markers |-> mk, LastMarker |-> lm]
      ELSE [why |-> "",
            markers |-> [mk EXCEPT ![lm].len = PC - mk[lm].pc],
            LastMarker |-> 0]

\* closeLastInstruction(PC) on the marker table: the assertion that fires
\* ("" when none) and the table afterwards.
closeLastInstruction(mk, lm, PC) ==
  IF lm = 0
    THEN [why |-> "assert: LastMarker != nullptr", markers |-> mk, LastMarker |-> lm]
    ELSE LET StartPC == mk[lm].pc
         IN IF ~(PC > StartPC)
              THEN [why |-> "assert: PC > StartPC", markers |-> mk, LastMarker |-> lm]
              ELSE [why |-> "",
                    markers |-> [mk EXCEPT ![lm].len = PC - StartPC],
                    LastMarker |-> 0]

\* The driving loop closes the last marker at the end of a translation.
CloseLastInstruction(PC) ==
  /\ fatal = ""
  /\ UNCHANGED << calc, pipe >>
  /\ LET r == closeLastInstruction(markers, LastMarker, PC)
     IN /\ markers' = r.markers
        /\ LastMarker' = r.LastMarker
        /\ fatal' = r.why
        /\ last' = [NoCall EXCEPT !.call = "closeLastInstruction", !.pc = PC]
  /\ steps' = steps + 1
  /\ UNCHANGED << blocks, order, cur, Blocks, LabeledBasicBlocks, local, JT,
                  regInstr, mismatch, definedLabels, curPC >>

\* --------------------------------------------------- control-flow discovery
\* JumpTargetManager::newPC: the block already known for PC (0 for nullptr)
\* and whether it is still empty and should be filled.
newPC(jt, s, PC) ==
  [ DivergeTo |-> jt[PC],
    ShouldContinue |-> jt[PC] # 0 /\ s.blocks[jt[PC]].ops = <<>> ]

\* JumpTargetManager::getBlockAt on <<s, jt, asked>>: the block registered
\* for the address, created empty when there is none.
getBlockAt(sj, Address) ==
  IF sj.jt[Address] = 0
    THEN [s |-> CreateBlock(sj.s, 0),
          jt |-> [sj.jt EXCEPT ![Address] = NewBlockId(sj.s)],
          asked |-> sj.asked \cup {Address}]
    ELSE [sj EXCEPT !.asked = @ \cup {Address}]

\* Builder.GetInsertPoint() == Builder.GetInsertBlock()->begin(): the
\* insertion point is the block's end, which is its beginning only while the
\* block is empty.
InsertPointAtBegin(s) == s.blocks[s.cur].ops = <<>>

\* --------------------------------------------------------- newInstruction
\* divergeInto that moves into the known block even when it is not empty.
divergeInto_AlwaysEnter(s, DivergeTo, ShouldContinue) ==
  [s |-> EnterBlock(Emit(s, <<BrOp(DivergeTo)>>), DivergeTo),
   stop |-> ~ShouldContinue]

\* divergeInto that branches to an empty known block without moving into it.
divergeInto_NeverEnter(s, DivergeTo, ShouldContinue) ==
  [s |-> Emit(s, <<BrOp(DivergeTo)>>), stop |-> ~ShouldContinue]

\* DivergeTo != nullptr: branch to the known block, then either move into it
\* or stop.
divergeInto(s, DivergeTo, ShouldContinue) ==
  LET s1 == Emit(s, <<BrOp(DivergeTo)>>)
  IN IF ShouldContinue
       THEN [s |-> EnterBlock(s1, DivergeTo), stop |-> FALSE]
       ELSE [s |-> s1, stop |-> TRUE]

\* if (LastMarker != nullptr) closeLastInstruction(PC); LastMarker = newpc call
closeAndOpen(s, mk, lm, PC) ==
  LET c == IF lm # 0
             THEN closeLastInstruction(mk, lm, PC)
             ELSE [why |-> "", markers |-> mk, LastMarker |-> lm]
  IN IF c.why # ""
       THEN [why |-> c.why, s |-> s, markers |-> mk, LastMarker |-> lm]
       ELSE [why |-> "",
             s |-> Emit(s, <<Op("call_newpc")>>),
             markers |-> Append(c.markers, [pc |-> PC, len |-> 0]),
             LastMarker |-> Len(c.markers) + 1]

\* Inform the JumpTargetManager about the new PC.
registerNewPC(s, jt, ri, PC, marker) ==
  IF InsertPointAtBegin(s)
    THEN [jt |-> [jt EXCEPT ![PC] = s.cur], ri |-> ri]
    ELSE [jt |-> jt, ri |-> ri \cup {<<PC, marker>>}]

newInstruction(PC, IsFirst) ==
  /\ fatal = ""
  /\ UNCHANGED << calc, pipe >>
  /\ steps' = steps + 1
  /\ UNCHANGED << mismatch, definedLabels >>
  /\ LET me == [NoCall EXCEPT !.call = "newInstruction", !.pc = PC,
                              !.first = IsFirst]
         q == newPC(JT, St, PC)
         d == IF ~IsFirst /\ q.DivergeTo # 0
                THEN divergeInto(St, q.DivergeTo, q.ShouldContinue)
                ELSE [s |-> St, stop |-> FALSE]
     IN IF d.stop
          THEN /\ SetSt(d.s)
               /\ last' = [me EXCEPT !.ret = TRUE]
               /\ curPC' = PC
               /\ UNCHANGED << markers, LastMarker, JT, regInstr, fatal >>
          ELSE LET m == closeAndOpen(d.s, markers, LastMarker, PC)
                   g == IF IsFirst \/ m.why # ""
                          THEN [jt |-> JT, ri |-> regInstr]
                          ELSE registerNewPC(m.s, JT, regInstr, PC, m.LastMarker)
               IN /\ SetSt(m.s)
                  /\ markers' = m.markers
                  /\ LastMarker' = m.LastMarker
                  /\ JT' = g.jt
                  /\ regInstr' = g.ri
                  /\ fatal' = m.why
                  /\ last' = me
                  /\ curPC' = IF m.why = "" THEN PC ELSE curPC

\* ----------------------------------------------------------- translateCall
\* LoadArgs over a range of temporaries: Variables.getOrCreate for each, and
\* one load each.
LoadAll(s, temps) ==
  Emit([s EXCEPT !.local = @ \cup {temps[i] : i \in 1..Len(temps)}],
       [i \in 1..Len(temps) |-> Op("load")])

\* The body of translateCall with the store made whatever the output count.
translateCallCode_StoreAlways(s, InArguments, nout, out, helperName) ==
  LET s1 == Emit([s EXCEPT !.local = @ \cup {InArguments[i] :
                                              i \in 1..Len(InArguments)}],
                 [i \in 1..Len(InArguments) |->
                    Op("load") @@ [of |-> InArguments[i]]])
  IN IF ~(nout <= 1)
       THEN [s |-> s1, why |-> "assert: OutArguments.size() <= 1"]
       ELSE [s |-> Emit([s1 EXCEPT !.local = @ \cup {out}],
                        <<Op("call_helper") @@ [name |-> "helper_" \o helperName,
                                                args |-> InArguments,
                                                void |-> nout = 0],
                          Op("store") @@ [to |-> out]>>),
             why |-> ""]

\* The body of translateCall: the loads of the inputs in order (each one
\* names the temporary it reads), the assertion on the output count, the
\* result slot and the callee's return type, the call of "helper_" + name on
\* the loaded values, and the store of the result.
translateCallCode(s, InArguments, nout, out, helperName) ==
  LET s1 == Emit([s EXCEPT !.local = @ \cup {InArguments[i] :
                                              i \in 1..Len(InArguments)}],
                 [i \in 1..Len(InArguments) |->
                    Op("load") @@ [of |-> InArguments[i]]])
  IN IF ~(nout <= 1)
       THEN [s |-> s1, why |-> "assert: OutArguments.size() <= 1"]
       ELSE LET s2 == IF nout # 0
                        THEN [s1 EXCEPT !.local = @ \cup {out}]
                        ELSE s1
                s3 == Emit(s2, <<Op("call_helper")
                                   @@ [name |-> "helper_" \o helperName,
                                       args |-> InArguments,
                                       void |-> nout = 0]>>)
                s4 == IF nout # 0
                        THEN Emit(s3, <<Op("store") @@ [to |-> out]>>)
                        ELSE s3
            IN [s |-> s4, why |-> ""]

translateCall(InArguments, nout, out, helperName) ==
  /\ fatal = "" /\ curPC # 0
  /\ UNCHANGED << calc, pipe >>
  /\ steps' = steps + 1
  /\ UNCHANGED << markers, LastMarker, JT, regInstr, mismatch, definedLabels,
                  curPC >>
  /\ last' = [NoCall EXCEPT !.call = "translateCall", !.opcode = "call",
                            !.pc = curPC, !.args = InArguments,
                            !.nres = nout, !.helper = helperName,
                            !.outs = [i \in 1..nout |-> out]]
  /\ LET r == translateCallCode(St, InArguments, nout, out, helperName)
     IN /\ SetSt(r.s)
        /\ fatal' = r.why

\* --------------------------------------------------------------- translate
\* The response to the recoverable failure without the unreachable.
onTranslationError_AbortOnly(s) == Emit(s, <<Op("call_abort")>>)

\* The response to the recoverable failure: the trap sequence.
onTranslationError(s) == Emit(s, <<Op("call_abort"), Op("unreachable")>>)

\* The test without the comparison with the instruction's own address.
writesImmediatePC_AnyAddress(Destination, Value, PC) ==
  Destination = PCTemp /\ Value.const

\* JumpTargets.isPCReg(Destination), dyn_cast<ConstantInt>(Value) != nullptr
\* and PC != Address: the PC is written with an immediate other than the
\* address of the instruction being translated.
writesImmediatePC(Destination, Value, PC) ==
  Destination = PCTemp /\ Value.const /\ PC # Value.val

\* The loop of translate over the results, from result I on.
RECURSIVE StoreResults(_, _, _, _, _)
StoreResults(sj, Result, OutArguments, PC, I) ==
  IF I > Len(Result)
    THEN sj
    ELSE LET Destination == OutArguments[I]
             Value == Result[I]
             s1 == Emit([sj.s EXCEPT !.local = @ \cup {Destination}],
                        <<Op("store")>>)
             sj1 == [sj EXCEPT !.s = s1]
             sj2 == IF writesImmediatePC(Destination, Value, PC)
                      THEN getBlockAt(sj1, Value.val)
                      ELSE sj1
         IN StoreResults(sj2, Result, OutArguments, PC, I + 1)

translate(Opcode, ConstArguments, InArguments, OutArguments, mem) ==
  /\ fatal = "" /\ curPC # 0
  /\ UNCHANGED << calc, pipe >>
  /\ steps' = steps + 1
  /\ UNCHANGED << markers, LastMarker, regInstr, mismatch, curPC >>
  /\ definedLabels' = IF Opcode = "set_label"
                        THEN definedLabels \cup {ConstArguments[1]}
                        ELSE definedLabels
  /\ LET s1 == LoadAll(St, InArguments)
         r == translateOpcode(Opcode, ConstArguments, InArguments, mem,
                              mismatch, s1)
         me == [NoCall EXCEPT !.call = "translate", !.opcode = Opcode,
                              !.pc = curPC, !.args = InArguments,
                              !.outs = OutArguments, !.mem = mem]
     IN CASE r.status = "fatal" ->
               /\ SetSt(r.st)
               /\ fatal' = r.why
               /\ last' = me
               /\ UNCHANGED JT
          [] r.status = "error" ->
               /\ SetSt(onTranslationError(r.st))
               /\ last' = [me EXCEPT !.ret = TRUE]
               /\ UNCHANGED << JT, fatal >>
          [] OTHER ->
               IF Len(r.res) # Len(OutArguments)
                 THEN /\ SetSt(r.st)
                      /\ fatal' = "assert: Result->size() == OutArguments.size()"
                      /\ last' = [me EXCEPT !.nres = Len(r.res), !.binop = r.binop]
                      /\ UNCHANGED JT
                 ELSE LET f == StoreResults([s |-> r.st, jt |-> JT, asked |-> {}],
                                            r.res, OutArguments, curPC, 1)
                      IN /\ SetSt(f.s)
                         /\ JT' = f.jt
                         /\ last' = [me EXCEPT !.nres = Len(r.res),
                                               !.binop = r.binop,
                                               !.res = r.res,
                                               !.asked = f.asked]
                         /\ UNCHANGED fatal

\* ------------------------------------------------------ the driving loop
\* What ptc.parse_load_store_arg can make of a memory-access argument.
MemArgs ==
  [ size : {8, 16, 32, 64}, sign : BOOLEAN,
    access : {"aligned", "unaligned", "unknown"} ]
NoMem == [size |-> 8, sign |-> FALSE, access |-> "aligned"]

\* Deposit positions tried: inside the register, and the register size.
DepositPositions == {0, 32, 64}

\* The constant operands of an instruction: c an immediate or state offset,
\* l a label id, p a deposit position.
ConstArgumentsOf(Opcode, c, l, p) ==
  CASE Opcode \in {"br", "set_label"} -> <<l>>
    [] Opcode \in BrcondOps \cup {"brcond2_i32"} -> <<c, l>>
    [] Opcode \in DepositOps -> <<p, c>>
    [] OTHER -> <<c>>

UsesConst(Opcode) == Opcode \in MoviOps \cup LdOps \cup StOps
UsesLabel(Opcode) == Opcode \in BranchOps \cup {"set_label"}

\* The instruction streams explored to depth MaxSteps are made of the opcodes
\* that touch blocks, labels, jump targets or the error path; SpecOpcodes
\* below covers every opcode.
StreamOpcodes ==
  { "set_label", "br", "brcond_i32", "exit_tb", "movi_i32", "ld_i32" }

\* The address operand of a state-field access is the process-state base or
\* another temporary; the offsets tried are one 32-bit and one 64-bit field.
AddressTemps == {EnvTemp, GPTemp}
EnvOffsets == {1, 2}

\* One plain instruction: its operands, then translate.  The inputs other
\* than an address operand are ordinary registers; the first output is drawn
\* from Outs and a state-field offset from Offsets.
PlainInstructionOf(Opcode, Outs, Offsets) ==
  \E a \in IF Opcode \in LdOps \cup StOps THEN AddressTemps ELSE {GPTemp},
     o \in IF outArgCount(Opcode) >= 1 THEN Outs ELSE {GPTemp},
     c \in IF Opcode \in MoviOps THEN PCs
           ELSE IF UsesConst(Opcode) THEN Offsets ELSE {1},
     l \in IF UsesLabel(Opcode) THEN Labels ELSE {1},
     p \in IF Opcode \in DepositOps THEN DepositPositions ELSE {0},
     mem \in IF Opcode \in QemuLdOps \cup QemuStOps THEN MemArgs ELSE {NoMem} :
    /\ Opcode = "set_label" => l \notin definedLabels
    /\ translate(Opcode, ConstArgumentsOf(Opcode, c, l, p),
                 IF Opcode \in StOps
                   THEN <<GPTemp, a>>
                   ELSE SubSeq(<<a, GPTemp, GPTemp, GPTemp>>, 1,
                               inArgCount(Opcode)),
                 SubSeq(<<o, GPTemp>>, 1, outArgCount(Opcode)), mem)

CallInstructionOf(InArguments, nout, out, helperName) ==
  translateCall(InArguments, nout, out, helperName)

DebugInsnStart ==
  /\ steps < MaxSteps
  /\ \E PC \in PCs, IsFirst \in BOOLEAN : newInstruction(PC, IsFirst)

\* In the streams a value is written to the program counter by movi, the
\* immediate jump target, and to an ordinary register otherwise, and the
\* state field accessed is a 32-bit one.
PlainInstruction ==
  /\ steps < MaxSteps
  /\ \E Opcode \in StreamOpcodes :
       PlainInstructionOf(Opcode,
                          IF Opcode \in MoviOps THEN {PCTemp, GPTemp}
                                                ELSE {GPTemp},
                          {1})

\* A helper call with nin inputs for some nin in Ins.
CallInstructionWith(Ins, Slots, Names) ==
  \E nin \in Ins, nout \in 0..MaxCallOut, helperName \in Names :
    \E InArguments \in [1..nin -> Slots] :
      \E out \in IF nout = 1 THEN {PCTemp, GPTemp} ELSE {GPTemp} :
        CallInstructionOf(InArguments, nout, out, helperName)

\* In the streams a helper takes the most inputs.
CallInstruction ==
  /\ steps < MaxSteps
  /\ CallInstructionWith({MaxCallIn}, {GPTemp}, {"lookup_tb_ptr"})

EndOfTranslation ==
  /\ steps < MaxSteps
  /\ \E PC \in 1..(MaxPC + 1) : CloseLastInstruction(PC)

Next ==
  \/ DebugInsnStart
  \/ PlainInstruction
  \/ CallInstruction
  \/ EndOfTranslation

Spec == Init /\ [][Next]_vars

\* Every opcode, as the instruction right after the first boundary of a
\* stream.
FirstBoundary ==
  /\ last.call = "none"
  /\ DebugInsnStart

AnyInstruction ==
  /\ last.call = "newInstruction"
  /\ \E Opcode \in TranslateOpcodes :
       PlainInstructionOf(Opcode, {PCTemp, GPTemp}, EnvOffsets)

AnyCall ==
  /\ last.call = "newInstruction"
  /\ CallInstructionWith(0..MaxCallIn, {PCTemp, GPTemp},
                         {"lookup_tb_ptr", "raise_exception"})

NextOpcodes ==
  \/ FirstBoundary
  \/ AnyInstruction
  \/ AnyCall

SpecOpcodes == InitOpcodes /\ [][NextOpcodes]_vars

\* One whole translation: the boundary of a source instruction, the stream
\* movi r0; add r1 = r0 + r0; exit_tb, and the closing of the last marker.
\* steps is the position in the stream.
NextEndToEnd ==
  \/ steps = 0 /\ \E PC \in PCs, IsFirst \in BOOLEAN : newInstruction(PC, IsFirst)
  \/ steps = 1 /\ PlainInstructionOf("movi_i32", {GPTemp}, EnvOffsets)
  \/ steps = 2 /\ PlainInstructionOf("add_i32", {GPTemp}, EnvOffsets)
  \/ steps = 3 /\ PlainInstructionOf("exit_tb", {GPTemp}, EnvOffsets)
  \/ steps = 4 /\ \E PC \in 1..(MaxPC + 1) : CloseLastInstruction(PC)

SpecEndToEnd == Init /\ [][NextEndToEnd]_vars

\* Streams in which a label may be defined again: after the boundary, up to
\* MaxSteps instructions that define a label, branch to one or emit content.
NextRedefine ==
  \/ steps = 0 /\ \E PC \in PCs, IsFirst \in BOOLEAN : newInstruction(PC, IsFirst)
  \/ /\ steps \in 1..MaxSteps
     /\ \E l \in Labels : translate("set_label", <<l>>, <<>>, <<>>, NoMem)
  \/ steps \in 1..MaxSteps /\ PlainInstructionOf("br", {GPTemp}, EnvOffsets)
  \/ steps \in 1..MaxSteps /\ PlainInstructionOf("movi_i32", {GPTemp}, EnvOffsets)

SpecRedefine == Init /\ [][NextRedefine]_vars

\* ------------------------------------------------- values of generated code
\* What the operations translateOpcode emits compute.  A value of w bits is
\* the set of the positions of its one bits; an LLVM value is such a set or
\* poison.
Width(w) == 0..(w - 1)
Val(v) == [poison |-> FALSE, v |-> v]
PoisonVal == [poison |-> TRUE, v |-> {}]

\* shl and lshr of LLVM on w bits by k: poison when k is not below w.
ShiftLeft(w, a, k) ==
  IF a.poison \/ k >= w
    THEN PoisonVal
    ELSE Val({i + k : i \in a.v} \cap Width(w))

ShiftRight(w, a, k) ==
  IF a.poison \/ k >= w
    THEN PoisonVal
    ELSE Val({i - k : i \in {j \in a.v : j >= k}})

OrV(a, b) == IF a.poison \/ b.poison THEN PoisonVal ELSE Val(a.v \cup b.v)

\* What a run can see of a value.  Poison may come out as any value: as
\* nothing, as all ones, or as a single bit.
PoisonObserved(w) == {{}, Width(w), {0}}
Observed(w, a) == IF a.poison THEN PoisonObserved(w) ELSE {a.v}

\* The rotate case: x shifted by n one way, or-ed with x shifted by Bits - n
\* the other way.  n is the value of the second input, below the register
\* size.
RotlOps == {"rotl_i32", "rotl_i64"}

rotateCode(Opcode, w, x, n) ==
  LET Left == Opcode \in RotlOps
      FirstShift == IF Left THEN ShiftRight(w, Val(x), n)
                            ELSE ShiftLeft(w, Val(x), n)
      SecondShiftAmount == w - n
      SecondShift == IF Left THEN ShiftLeft(w, Val(x), SecondShiftAmount)
                             ELSE ShiftRight(w, Val(x), SecondShiftAmount)
  IN OrV(FirstShift, SecondShift)

\* The rotate of the other direction and the same width.
OppositeRotate(Opcode) ==
  CASE Opcode = "rotl_i32" -> "rotr_i32"
    [] Opcode = "rotl_i64" -> "rotr_i64"
    [] Opcode = "rotr_i32" -> "rotl_i32"
    [] Opcode = "rotr_i64" -> "rotl_i64"

\* The inputs tried: no bit, every single bit, all bits, every other bit,
\* with every amount below the register size.
RotateInputs(Opcode) ==
  LET w == getRegisterSize(Opcode)
      Samples == {{i} : i \in Width(w)}
                 \cup {{}, Width(w), {i \in Width(w) : i % 2 = 0}}
  IN { [NoCalc EXCEPT !.opcode = Opcode, !.in0 = x, !.n = n] :
         x \in Samples, n \in Width(w) }

\* Running the code generated for one instruction on inputs drawn at the
\* start; the translator is left alone.
TranslatorUnchanged ==
  UNCHANGED << blocks, order, cur, Blocks, LabeledBasicBlocks, local, markers,
               LastMarker, JT, regInstr, mismatch, definedLabels, curPC,
               steps, fatal, last, pipe >>

RunRotate ==
  /\ calc.stage = 0 /\ calc.opcode \in RotOps
  /\ LET w == getRegisterSize(calc.opcode)
     IN \E r \in Observed(w, rotateCode(calc.opcode, w, calc.in0, calc.n)) :
          calc' = [calc EXCEPT !.stage = 1, !.out = <<r>>]
  /\ TranslatorUnchanged

\* The code of rotr applied to what the code of rotl returned, with the same
\* amount.
RunRotateBack ==
  /\ calc.stage = 1 /\ calc.opcode \in RotlOps
  /\ LET w == getRegisterSize(calc.opcode)
     IN \E r \in Observed(w, rotateCode(OppositeRotate(calc.opcode), w,
                                        calc.out[1], calc.n)) :
          calc' = [calc EXCEPT !.stage = 2, !.back = <<r>>]
  /\ TranslatorUnchanged

\* getMaxValue: the set bits of the maximum value of Bits bits.
getMaxValue(Bits) == Width(Bits)

\* The deposit case's mask, uint64_t Bits, as the values the host computes
\* for it.  (1 << Length) - 1 is int arithmetic.  Up to 30 it is Length ones.
\* At 31 the subtraction overflows int: it wraps to 31 ones, or is carried
\* out on the sign-extended operand and gives all ones but bit 31.  From 32
\* on the shift count is not below the width of int: the count is taken
\* modulo 32, or the shift gives 0 and the mask is all ones.
depositBits(Length, RegisterSize) ==
  LET Overflowed == {Width(31), Width(64) \ {31}}
  IN CASE Length = RegisterSize -> {getMaxValue(RegisterSize)}
       [] Length # RegisterSize /\ Length <= 30 -> {Width(Length)}
       [] Length # RegisterSize /\ Length = 31 -> Overflowed
       [] OTHER -> {Width(64)}
                   \cup (IF Length % 32 = 31 THEN Overflowed
                                              ELSE {Width(Length % 32)})

\* The deposit case for Position # RegisterSize, given the mask Bits:
\* (t1 & ~(bits << position)) | ((t2 & bits) << position), the two 64-bit
\* constants cut to the register type.
depositCode(w, x, y, Position, Bits) ==
  LET Shifted == {i + Position : i \in Bits} \cap Width(64)
      BaseMask == Width(64) \ Shifted
      MaskedBase == x \cap (BaseMask \cap Width(w))
      Deposit == y \cap (Bits \cap Width(w))
      ShiftedDeposit == ShiftLeft(w, Val(Deposit), Position)
  IN OrV(Val(MaskedBase), ShiftedDeposit)

\* Positions and lengths of a field inside the register, and the position
\* that is the register size.
DepositInputs(Opcode) ==
  LET w == getRegisterSize(Opcode)
      some == {{}, Width(w), {i \in Width(w) : i % 2 = 0}}
  IN { [NoCalc EXCEPT !.opcode = Opcode, !.in0 = x, !.in1 = y, !.p = p,
                      !.l = l] :
         x \in some, y \in some,
         p \in 0..w, l \in 1..w }

RunDeposit ==
  /\ calc.stage = 0 /\ calc.opcode \in DepositOps
  /\ LET w == getRegisterSize(calc.opcode)
     IN IF calc.p = w
          THEN calc' = [calc EXCEPT !.stage = 1, !.out = <<calc.in0>>]
          ELSE \E Bits \in depositBits(calc.l, w) :
                 \E r \in Observed(w, depositCode(w, calc.in0, calc.in1,
                                                  calc.p, Bits)) :
                   calc' = [calc EXCEPT !.stage = 1, !.bits = Bits,
                                        !.out = <<r>>]
  /\ TranslatorUnchanged

\* Arithmetic on values of Bits bits, carried out on their bytes.  Limbs
\* gives the bytes of a as numbers, byte 0 the lowest.
Limbs(Bits, a) ==
  LET bit(k, j) == IF (8 * k + j) \in a THEN 2 ^ j ELSE 0
  IN [k \in 0..((Bits \div 8) - 1) |->
        bit(k, 0) + bit(k, 1) + bit(k, 2) + bit(k, 3)
        + bit(k, 4) + bit(k, 5) + bit(k, 6) + bit(k, 7)]

\* The value whose byte k is cols[k], carries moved up from byte k on; the
\* carry out of the last byte is dropped.
RECURSIVE Normalize(_, _, _, _)
Normalize(cols, k, c, N) ==
  IF k = N
    THEN {}
    ELSE LET t == cols[k] + c
         IN {8 * k + j : j \in {i \in 0..7 : (t \div (2 ^ i)) % 2 = 1}}
            \cup Normalize(cols, k + 1, t \div 256, N)

\* The sum of A[i] * B[k - i] for i from i to k.
RECURSIVE Column(_, _, _, _)
Column(A, B, k, i) ==
  IF i > k THEN 0 ELSE A[i] * B[k - i] + Column(A, B, k, i + 1)

\* add and mul of LLVM on Bits bits: the result modulo 2^Bits.
AddV(Bits, a, b) ==
  LET N == Bits \div 8
      A == Limbs(Bits, a)
      B == Limbs(Bits, b)
  IN Normalize([k \in 0..(N - 1) |-> A[k] + B[k]], 0, 0, N)

MulV(Bits, a, b) ==
  LET N == Bits \div 8
      A == Limbs(Bits, a)
      B == Limbs(Bits, b)
  IN Normalize([k \in 0..(N - 1) |-> Column(A, B, k, 0)], 0, 0, N)

\* A sign extension that fills the upper bits with zeros.
SExt_ZeroFill(w, Bits, a) == a

\* zext, sext and trunc between a type of w bits and a wider one of Bits
\* bits.
ZExt(w, Bits, a) == a
SExt(w, Bits, a) == IF (w - 1) \in a THEN a \cup (w..(Bits - 1)) ELSE a
Trunc(w, a) == a \cap Width(w)

\* The mulu2 / muls2 case: both inputs extended to twice the register size,
\* multiplied there, and the product returned as its low half and its high
\* half (the product shifted right by the register size), each truncated
\* to the register type.
mul2Code(Opcode, w, a, b) ==
  LET DestinationBits == 2 * w
      Unsigned == Opcode \in Mulu2Ops
      FirstOperand == IF Unsigned THEN ZExt(w, DestinationBits, a)
                                  ELSE SExt(w, DestinationBits, a)
      SecondOperand == IF Unsigned THEN ZExt(w, DestinationBits, b)
                                   ELSE SExt(w, DestinationBits, b)
      Result == MulV(DestinationBits, FirstOperand, SecondOperand)
      ResultLow == Trunc(w, Result)
      ShiftedResult == ShiftRight(DestinationBits, Val(Result), w)
      ResultHigh == Trunc(w, ShiftedResult.v)
  IN << ResultLow, ResultHigh >>

\* The inputs tried: 0, 1, 2, 3, the largest value and the one below it, the
\* sign bit alone, all bits but the sign bit, every other bit.
Mul2Inputs(Opcode) ==
  LET w == getRegisterSize(Opcode)
      MulSamples == { {}, {0}, {1}, {0, 1}, Width(w), Width(w) \ {0},
                      {w - 1}, Width(w - 1), {i \in Width(w) : i % 2 = 0} }
  IN { [NoCalc EXCEPT !.opcode = Opcode, !.in0 = a, !.in1 = b] :
         a \in MulSamples, b \in MulSamples }

RunMul2 ==
  /\ calc.stage = 0 /\ calc.opcode \in Mul2Ops
  /\ calc' = [calc EXCEPT
                !.stage = 1,
                !.out = mul2Code(calc.opcode, getRegisterSize(calc.opcode),
                                 calc.in0, calc.in1)]
  /\ TranslatorUnchanged

\* The add2 / sub2 case: the four inputs sign-extended to twice the register
\* size, the high ones shifted left by the register size and or-ed with the
\* low ones, the table's operation on the two, and the result split as for
\* the wide multiply.
addSub2Code(Opcode, w, in0, in1, in2, in3) ==
  LET Wide == 2 * w
      FirstOperandLow == SExt(w, Wide, in0)
      FirstOperandHigh == ShiftLeft(Wide, Val(SExt(w, Wide, in1)), w).v
      SecondOperandLow == SExt(w, Wide, in2)
      SecondOperandHigh == ShiftLeft(Wide, Val(SExt(w, Wide, in3)), w).v
      FirstOperand == FirstOperandHigh \cup FirstOperandLow
      SecondOperand == SecondOperandHigh \cup SecondOperandLow
      BinaryOp == opcodeToBinaryOp(Opcode)
      Result == IF BinaryOp = "Add"
                  THEN AddV(Wide, FirstOperand, SecondOperand)
                  ELSE AddV(Wide, FirstOperand,
                            AddV(Wide, Width(Wide) \ SecondOperand, {0}))
      ResultLow == Trunc(w, Result)
      ShiftedResult == ShiftRight(Wide, Val(Result), w)
      ResultHigh == Trunc(w, ShiftedResult.v)
  IN << ResultLow, ResultHigh >>

RunAddSub2 ==
  /\ calc.stage = 0 /\ calc.opcode \in AddSub2Ops
  /\ calc' = [calc EXCEPT
                !.stage = 1,
                !.out = addSub2Code(calc.opcode, getRegisterSize(calc.opcode),
                                    calc.in0, calc.in1, calc.in2, calc.in3)]
  /\ TranslatorUnchanged

\* udiv and urem of the value with bytes A by a divisor d below 2^15, byte
\* by byte from byte k down with the remainder rem carried: the quotient as a
\* value and the remainder as a number.
RECURSIVE ShortDivide(_, _, _, _)
ShortDivide(A, k, rem, d) ==
  IF k < 0
    THEN [q |-> {}, r |-> rem]
    ELSE LET t == rem * 256 + A[k]
             rest == ShortDivide(A, k - 1, t % d, d)
         IN [q |-> rest.q
                   \cup {8 * k + j :
                          j \in {i \in 0..7 : ((t \div d) \div (2 ^ i)) % 2 = 1}},
             r |-> rest.r]

\* A div2 that divides by its second input.
div2Code_BySecond(Opcode, w, in0, in1, in2) ==
  LET Negate(x) == AddV(w, Width(w) \ x, {0})
      Signed == Opcode \in W("div2")
      NegA == Signed /\ (w - 1) \in in0
      NegB == Signed /\ (w - 1) \in in1
      MagA == IF NegA THEN Negate(in0) ELSE in0
      MagB == IF NegB THEN Negate(in1) ELSE in1
      d == Limbs(16, MagB)[0] + 256 * Limbs(16, MagB)[1]
      m == ShortDivide(Limbs(w, MagA), (w \div 8) - 1, 0, d)
      rm == {i \in 0..14 : (m.r \div (2 ^ i)) % 2 = 1}
  IN IF in1 = {} \/ (Signed /\ in0 = {w - 1} /\ in1 = Width(w))
       THEN PoisonObserved(w) \X PoisonObserved(w)
       ELSE { << IF NegA # NegB THEN Negate(m.q) ELSE m.q,
                 IF NegA THEN Negate(rm) ELSE rm >> }

\* The div2 / divu2 case: sdiv and srem (div2) or udiv and urem (divu2) of
\* the first input by the third; the second input is not used.  The pairs
\* of results a run can see: dividing by zero, and the most negative value
\* by -1 when signed, is undefined and may come out as anything.  The
\* divisors tried have a magnitude below 2^15.
div2Code(Opcode, w, in0, in1, in2) ==
  LET Negate(x) == AddV(w, Width(w) \ x, {0})
      Signed == Opcode \in W("div2")
      NegA == Signed /\ (w - 1) \in in0
      NegB == Signed /\ (w - 1) \in in2
      MagA == IF NegA THEN Negate(in0) ELSE in0
      MagB == IF NegB THEN Negate(in2) ELSE in2
      d == Limbs(16, MagB)[0] + 256 * Limbs(16, MagB)[1]
      m == ShortDivide(Limbs(w, MagA), (w \div 8) - 1, 0, d)
      rm == {i \in 0..14 : (m.r \div (2 ^ i)) % 2 = 1}
      Division == IF NegA # NegB THEN Negate(m.q) ELSE m.q
      Remainder == IF NegA THEN Negate(rm) ELSE rm
  IN IF in2 = {} \/ (Signed /\ in0 = {w - 1} /\ in2 = Width(w))
       THEN PoisonObserved(w) \X PoisonObserved(w)
       ELSE { << Division, Remainder >> }

RunDiv2 ==
  /\ calc.stage = 0 /\ calc.opcode \in Div2Ops
  /\ \E r \in div2Code(calc.opcode, getRegisterSize(calc.opcode),
                        calc.in0, calc.in1, calc.in2) :
       calc' = [calc EXCEPT !.stage = 1, !.out = r]
  /\ TranslatorUnchanged

InitValues ==
  /\ TranslatorInit({}, {FALSE})
  /\ pipe = NoPipe
  /\ \/ \E Opcode \in RotOps : calc \in RotateInputs(Opcode)
     \/ \E Opcode \in DepositOps :
          /\ calc \in DepositInputs(Opcode)
          /\ calc.p + calc.l <= getRegisterSize(Opcode)
               \/ calc.p = getRegisterSize(Opcode)
     \/ \E Opcode \in Mul2Ops : calc \in Mul2Inputs(Opcode)
     \/ \E Opcode \in AddSub2Ops :
          LET w == getRegisterSize(Opcode)
              some == {{}, {0}, {w - 1}, Width(w)}
          IN calc \in { [NoCalc EXCEPT !.opcode = Opcode, !.in0 = a,
                                       !.in1 = b, !.in2 = c, !.in3 = d] :
                          a \in some, b \in some, c \in some, d \in some }
     \/ \E Opcode \in Div2Ops :
          LET w == getRegisterSize(Opcode)
              dividends == { {}, {0, 1, 2}, Width(w) \ {1, 2}, Width(w),
                             {w - 1}, Width(w - 1) }
              divisors == { {}, {0}, {1}, {0, 1} }
                          \cup (IF Opcode \in W("div2")
                                  THEN {Width(w), Width(w) \ {1}}
                                  ELSE {{0, 2, 14}})
          IN calc \in { [NoCalc EXCEPT !.opcode = Opcode, !.in0 = a,
                                       !.in1 = b, !.in2 = c] :
                          a \in dividends, b \in {{}, {0}, Width(w)},
                          c \in divisors }

NextValues ==
  \/ RunRotate
  \/ RunRotateBack
  \/ RunDeposit
  \/ RunMul2
  \/ RunAddSub2
  \/ RunDiv2

SpecValues == InitValues /\ [][NextValues]_vars

\* ------------------------------------------------------- pipeline: pipes
\* A contract group names the kind of target all of it needs, and turns the
\* targets of kind source into targets of kind target.
\* ContractGroup::forwardMatches: the map holds what the group needs.
Contract_forwardMatches(Contract, Status) == Contract.needs \in Status

\* ContractGroup::deduceResults, which updates the map it is handed: what
\* the map holds once the group has been applied to it.
Contract_deduceResults(Contract, Status) ==
  IF Contract.source \in Status
    THEN (Status \ {Contract.source}) \cup {Contract.target}
    ELSE Status

\* The loop that tests every contract against the map it was handed.
checkContracts_OnInput(Contracts, ToCheck, k) ==
  [ ret |-> \E i \in k..Len(Contracts) :
              Contract_forwardMatches(Contracts[i], ToCheck),
    ToCheck |-> ToCheck ]

\* The loop of areRequirementsMet from contract k on: return true at the
\* first contract that forward-matches ToCheck, apply the contract's deduced
\* results to ToCheck otherwise; false when the contracts are exhausted.
RECURSIVE checkContracts(_, _, _)
checkContracts(Contracts, ToCheck, k) ==
  IF k > Len(Contracts)
    THEN [ret |-> FALSE, ToCheck |-> ToCheck]
    ELSE IF Contract_forwardMatches(Contracts[k], ToCheck)
      THEN [ret |-> TRUE, ToCheck |-> ToCheck]
      ELSE checkContracts(Contracts,
                          Contract_deduceResults(Contracts[k], ToCheck), k + 1)

\* PipeWrapperImpl::areRequirementsMet(Ctx, Input): Input is a reference to
\* a constant map, ToCheck a copy of it.
areRequirementsMet ==
  /\ ~pipe.called
  /\ LET r == IF Len(pipe.Contracts) = 0
                THEN [ret |-> TRUE, ToCheck |-> {}]
                ELSE checkContracts(pipe.Contracts, pipe.Input, 1)
     IN pipe' = [pipe EXCEPT !.called = TRUE, !.ret = r.ret,
                             !.ToCheck = r.ToCheck]
  /\ UNCHANGED << blocks, order, cur, Blocks, LabeledBasicBlocks, local,
                  markers, LastMarker, JT, regInstr, mismatch, definedLabels,
                  curPC, steps, fatal, last, calc >>

\* A pipe with up to MaxContracts contracts over three kinds of target, and
\* an Input holding any of them.
InitPipe ==
  /\ TranslatorInit({}, {FALSE})
  /\ calc = NoCalc
  /\ \E n \in 0..MaxContracts :
       \E Contracts \in [1..n -> [needs : 1..3, source : 1..3,
                                  target : 1..3]],
          Input \in SUBSET (1..3) :
         pipe = [NoPipe EXCEPT !.Contracts = Contracts, !.Input = Input]

NextPipe == areRequirementsMet

SpecPipe == InitPipe /\ [][NextPipe]_vars

\* ------------------------------------------------------------------ claims
BlockIds == 1..Len(blocks)
MarkerIds == 1..Len(markers)

\* The branch operations, anywhere in the function, that target block b.
BranchesTo(b) ==
  { <<x, i>> \in BlockIds \X (1..20) :
      /\ i <= Len(blocks[x].ops)
      /\ blocks[x].ops[i].k \in {"br", "condbr"}
      /\ blocks[x].ops[i].t = b }

\* C1: in every block a terminator is the last operation: no block has two
\* terminators and nothing is emitted after a terminator, whatever sequence
\* of newInstruction, translate and translateCall calls was made.
C1_OneTerminatorLast ==
  \A b \in BlockIds :
    \A i \in 1..Len(blocks[b].ops) :
      blocks[b].ops[i].k \in Terminators => i = Len(blocks[b].ops)

\* C2: each label names at most one block, LabeledBasicBlocks records exactly
\* that block, and once the stream has defined the label the insertion went
\* into that same block, which every earlier branch to the label targets.
C2_LabelOneBlock ==
  \A l \in Labels :
    LET named == { b \in BlockIds : blocks[b].label = l }
    IN /\ Cardinality(named) <= 1
       /\ named = IF LabeledBasicBlocks[l] = 0 THEN {} ELSE {LabeledBasicBlocks[l]}
       /\ l \in definedLabels /\ fatal = "" =>
            /\ LabeledBasicBlocks[l] # 0
            /\ \E i \in 1..Len(Blocks) : Blocks[i] = LabeledBasicBlocks[l]

\* C2 witness: a label was branched to while undefined and then defined, and
\* both the branch and the definition's fallthrough target its one block.
C2_Witness ==
  /\ last.call = "translate" /\ last.opcode = "set_label" /\ fatal = ""
  /\ \E l \in definedLabels :
       /\ cur = LabeledBasicBlocks[l]
       /\ Cardinality(BranchesTo(cur)) >= 2

\* C3: at most one marker is open, it is LastMarker, and it is the newest
\* marker: every marker opened before it has already been closed, so markers
\* are closed in the order they were opened and never overlap.
C3_OneOpenMarker ==
  /\ \A i \in MarkerIds : markers[i].len = 0 => i = LastMarker /\ i = Len(markers)
  /\ LastMarker # 0 => LastMarker \in MarkerIds /\ markers[LastMarker].len = 0

\* C3 witness: a second marker is open after the first was closed.
C3_Witness ==
  /\ Len(markers) >= 2
  /\ LastMarker = Len(markers)
  /\ markers[1].len > 0

\* C4: closing at PC fails fatally when no marker is open or PC is not above
\* the open marker's address; otherwise it sets that marker's length to
\* PC - StartPC, changes no other marker and leaves none open.  The same holds
\* for the close newInstruction performs before opening the next marker.
C4_Close ==
  [][ \/ last'.call = "closeLastInstruction"
      \/ last'.call = "newInstruction" /\ ~last'.ret /\ LastMarker # 0
      => IF LastMarker = 0 \/ ~(last'.pc > markers[LastMarker].pc)
           THEN fatal' # "" /\ markers' = markers /\ LastMarker' = LastMarker
           ELSE /\ fatal' = ""
                /\ markers'[LastMarker].len = last'.pc - markers[LastMarker].pc
                /\ \A i \in MarkerIds \ {LastMarker} : markers'[i] = markers[i]
                /\ markers'[LastMarker].pc = markers[LastMarker].pc
                /\ last'.call = "closeLastInstruction" => LastMarker' = 0
    ]_vars

\* C4 witness: a marker was closed with a length of two addresses.
C4_Witness ==
  /\ last.call = "closeLastInstruction" /\ fatal = ""
  /\ LastMarker = 0
  /\ markers # <<>>
  /\ markers[Len(markers)].len = 2
  /\ last.pc = markers[Len(markers)].pc + 2

\* C5: a non-first newInstruction whose address already has a non-empty
\* block appends exactly one unconditional branch to that block at the end of
\* the current block and returns stop; it opens and closes no marker,
\* registers nothing, leaves the insertion point where it was and puts
\* nothing else into any block.
C5_StopAtTranslatedBlock ==
  [][ /\ last'.call = "newInstruction" /\ ~last'.first
      /\ JT[last'.pc] # 0
      /\ blocks[JT[last'.pc]].ops # <<>>
      => /\ last'.ret
         /\ blocks' = [blocks EXCEPT ![cur].ops = Append(@, BrOp(JT[last'.pc]))]
         /\ UNCHANGED << cur, order, Blocks, LabeledBasicBlocks, local,
                         markers, LastMarker, JT, regInstr, fatal >>
    ]_vars

\* C5 witness: newInstruction returned stop after branching from the current
\* block into a different, already translated block, with a marker still
\* open.
C5_Witness ==
  /\ last.call = "newInstruction" /\ last.ret /\ ~last.first
  /\ JT[last.pc] # cur
  /\ blocks[cur].ops[Len(blocks[cur].ops)] = BrOp(JT[last.pc])
  /\ blocks[JT[last.pc]].ops # <<>>
  /\ LastMarker # 0

\* The marker table after closing the open marker at PC and opening the next.
C6_ClosedAndOpened(PC) ==
  Append([markers EXCEPT ![LastMarker].len = PC - markers[LastMarker].pc],
         [pc |-> PC, len |-> 0])

\* C6: for a non-first newInstruction with a marker open.  New address: the
\* previous marker is closed, a new one is opened at the end of the current
\* block and the insertion point stays there.  Empty placeholder block: a
\* branch to the placeholder ends the current block, the insertion point
\* moves into the placeholder, the per-block state is reset, and the marker
\* closed and the marker opened are as before, the new one being the first
\* operation of the placeholder.  Neither case returns stop.
C6_ContinueOrEnterPlaceholder ==
  [][ /\ last'.call = "newInstruction" /\ ~last'.first
      /\ LastMarker # 0
      /\ last'.pc > markers[LastMarker].pc
      /\ JT[last'.pc] # 0 => blocks[JT[last'.pc]].ops = <<>>
      => LET PC == last'.pc
             D == JT[PC]
         IN /\ ~last'.ret /\ fatal' = ""
            /\ markers' = C6_ClosedAndOpened(PC)
            /\ LastMarker' = Len(markers')
            /\ IF D = 0
                 THEN /\ cur' = cur /\ Blocks' = Blocks /\ local' = local
                      /\ blocks' = [blocks EXCEPT
                                      ![cur].ops = Append(@, Op("call_newpc"))]
                 ELSE /\ cur' = D /\ D # cur
                      /\ Blocks' = Append(Blocks, D)
                      /\ local' = {}
                      /\ blocks' = [blocks EXCEPT
                                      ![cur].ops = Append(@, BrOp(D)),
                                      ![D].ops = <<Op("call_newpc")>>]
    ]_vars

\* C6 witness: the second marker was opened as the first operation of a
\* placeholder block the previous block now branches to.
C6_Witness ==
  /\ last.call = "newInstruction" /\ ~last.ret /\ ~last.first /\ fatal = ""
  /\ cur = JT[last.pc]
  /\ blocks[cur].ops = <<Op("call_newpc")>>
  /\ Cardinality(BranchesTo(cur)) = 1
  /\ local = {}
  /\ Len(markers) >= 2 /\ LastMarker = Len(markers)
  /\ markers[Len(markers) - 1].len > 0

\* C6 witness for the new-address case: the second marker follows the first
\* in the same block.
C6_WitnessNewAddress ==
  /\ last.call = "newInstruction" /\ ~last.ret /\ ~last.first /\ fatal = ""
  /\ JT[last.pc] = 0
  /\ Len(blocks[cur].ops) >= 2
  /\ blocks[cur].ops[Len(blocks[cur].ops)] = Op("call_newpc")
  /\ Len(markers) >= 2 /\ LastMarker = Len(markers)

\* The operations at the end of a sequence, from position n + 1 on.
C7_After(ops, n) == SubSeq(ops, n + 1, Len(ops))

\* The recoverable failure: a state-field load or store whose address operand
\* is not the load of the process-state base.
C7_RecoverableFailure(Opcode, InArguments) ==
  \/ Opcode \in LdOps /\ InArguments[1] # EnvTemp
  \/ Opcode \in StOps /\ InArguments[2] # EnvTemp

\* C7: a translate call that does not end fatally returns true exactly on
\* the recoverable failure.  Then what it added to the current block is the
\* loads of its inputs followed by the abort call and the unreachable, and
\* nothing else changed: no store was emitted, no output variable was
\* created, no jump target was registered and the insertion point did not
\* move.  Otherwise it returns false, and the block it ends in ends with one
\* store per declared output.
C7_TrapOnRecoverableFailure ==
  [][ last'.call = "translate" /\ fatal' = ""
      => IF C7_RecoverableFailure(last'.opcode, last'.args)
           THEN /\ last'.ret
                /\ blocks' = [blocks EXCEPT ![cur].ops =
                                @ \o [i \in 1..Len(last'.args) |-> Op("load")]
                                  \o <<Op("call_abort"), Op("unreachable")>>]
                /\ local' = local \cup {last'.args[i] : i \in 1..Len(last'.args)}
                /\ last'.asked = {}
                /\ UNCHANGED << cur, order, Blocks, LabeledBasicBlocks, JT,
                                regInstr, markers, LastMarker >>
           ELSE /\ ~last'.ret
                /\ last'.nres = outArgCount(last'.opcode)
                /\ LET ops == blocks'[cur'].ops
                   IN /\ Len(ops) >= last'.nres
                      /\ \A i \in 1..Len(ops) :
                           i > Len(ops) - last'.nres => ops[i].k = "store"
    ]_vars

\* C7 witness: a state-field store through an address that is not the
\* process-state base returned true and left the trap at the end of the
\* block, after the loads of its two inputs.
C7_Witness ==
  /\ last.call = "translate" /\ last.ret /\ fatal = ""
  /\ last.opcode \in StOps
  /\ Len(blocks[cur].ops) >= 4
  /\ C7_After(blocks[cur].ops, Len(blocks[cur].ops) - 4)
       = <<Op("load"), Op("load"), Op("call_abort"), Op("unreachable")>>

\* C7 witness for the other case: a load from the process state returned
\* false after its one store.
C7_WitnessStored ==
  /\ last.call = "translate" /\ ~last.ret /\ fatal = ""
  /\ last.opcode \in LdOps /\ last.nres = 1
  /\ blocks[cur].ops[Len(blocks[cur].ops)] = Op("store")

\* The result counts the claim lists.
C8_Declared(Opcode) ==
  CASE Opcode \in StOps \cup QemuStOps -> 0
    [] Opcode = "set_label" -> 0
    [] Opcode \in {"br", "brcond_i32", "brcond_i64", "brcond2_i32"} -> 0
    [] Opcode \in {"exit_tb", "goto_tb"} -> 0
    [] Opcode \in Add2Ops \cup Sub2Ops \cup Mul2Ops \cup Div2Ops -> 2
    [] OTHER -> 1

\* C8: the assertion of translate on the number of results never fails; an
\* opcode translated successfully returned as many values as its declared
\* output count, which is 0, 2 or 1 as listed; and a helper call that was
\* translated has 0 or 1 outputs.
C8_ResultCount ==
  /\ fatal # "assert: Result->size() == OutArguments.size()"
  /\ last.call = "translate" /\ fatal = "" /\ ~last.ret
       => /\ last.nres = outArgCount(last.opcode)
          /\ last.nres = C8_Declared(last.opcode)
  /\ last.call = "translateCall" /\ fatal = "" => last.nres \in {0, 1}

\* C8 witness: a divide-with-remainder returned two values, both stored.
C8_Witness ==
  /\ last.call = "translate" /\ fatal = "" /\ ~last.ret
  /\ last.opcode \in Div2Ops /\ last.nres = 2
  /\ C7_After(blocks[cur].ops, Len(blocks[cur].ops) - 2)
       = <<Op("store"), Op("store")>>

\* Assertions of translateOpcode on an instruction's operands and on the
\* state it is applied in, and the assertion of translate on the result.
C9_OperandAssertions ==
  { "assert: unknown memory access type", "assert: labeled block is not empty",
    "assert: Result->size() == OutArguments.size()" }

\* C9: apart from those assertions, a translate call ends fatally only for
\* an opcode declared unimplemented or outside the enumeration; brcond2_i32,
\* the byte swaps and discard in particular complete.
C9_FatalOnlyUnimplemented ==
  last.call = "translate" /\ fatal # "" /\ fatal \notin C9_OperandAssertions
    => last.opcode \in UnimplementedOps \cup {UnknownOpcode}

\* The table the claim gives for opcodeToBinaryOp.
C10_Claimed(Opcode) ==
  CASE Opcode \in {"add_i32", "add_i64", "add2_i32", "add2_i64"} -> "Add"
    [] Opcode \in {"sub_i32", "sub_i64", "sub2_i32", "sub2_i64"} -> "Sub"
    [] Opcode \in {"mul_i32", "mul_i64"} -> "Mul"
    [] Opcode \in {"div_i32", "div_i64"} -> "SDiv"
    [] Opcode \in {"divu_i32", "divu_i64"} -> "UDiv"
    [] Opcode \in {"rem_i32", "rem_i64"} -> "SRem"
    [] Opcode \in {"remu_i32", "remu_i64"} -> "URem"
    [] Opcode \in {"and_i32", "and_i64"} -> "And"
    [] Opcode \in {"or_i32", "or_i64"} -> "Or"
    [] Opcode \in {"xor_i32", "xor_i64"} -> "Xor"
    [] Opcode \in {"shl_i32", "shl_i64"} -> "Shl"
    [] Opcode \in {"shr_i32", "shr_i64"} -> "LShr"
    [] Opcode \in {"sar_i32", "sar_i64"} -> "AShr"
    [] OTHER -> "fails"

\* C10: opcodeToBinaryOp returns the listed operation for each opcode of the
\* binary-operator subset and fails for every other opcode, and translate
\* never makes it fail: whenever translateOpcode consulted it, the opcode was
\* in the subset and the operation emitted is the listed one.
C10_BinaryOpTable ==
  /\ \A Opcode \in Opcodes :
       IF C10_Claimed(Opcode) = "fails"
         THEN opcodeToBinaryOp(Opcode) = NotBinary
         ELSE opcodeToBinaryOp(Opcode) = C10_Claimed(Opcode)
  /\ fatal # "llvm_unreachable: PTC opcode is not a binary operator"
  /\ last.call = "translate" /\ last.binop # ""
       => last.binop = C10_Claimed(last.opcode)

\* C10 witness: a logical shift right and a wide subtraction went through
\* the table.
C10_Witness ==
  /\ last.call = "translate" /\ fatal = ""
  /\ last.opcode = "shr_i64" /\ last.binop = "LShr"

C10_WitnessWide ==
  /\ last.call = "translate" /\ fatal = ""
  /\ last.opcode = "sub2_i32" /\ last.binop = "Sub" /\ last.nres = 2

\* A rotation of the w-bit x to the left by n, 0 < n < w.
C18_RotateLeft(w, x, n) ==
  {i - (w - n) : i \in {j \in x : j >= w - n}}
  \cup ({i + n : i \in x} \cap Width(w))

C18_RotateRight(w, x, n) ==
  ({i + (w - n) : i \in x} \cap Width(w))
  \cup {i - n : i \in {j \in x : j >= n}}

\* C11: the code generated for rotl by n followed by the code generated for
\* rotr by n gives back x, for every amount n from 0 up to the width.
C11_RotateRoundTrip ==
  calc.stage = 2 /\ calc.opcode \in RotlOps => calc.back[1] = calc.in0

\* C18: for 0 < n < w the code generated for rotl computes
\* (x >> (w - n)) | (x << n) and the code generated for rotr computes
\* (x << (w - n)) | (x >> n).
C18_RotateFormula ==
  calc.stage = 1 /\ calc.opcode \in RotOps /\ calc.n > 0
    => LET w == getRegisterSize(calc.opcode)
       IN calc.out[1] = IF calc.opcode \in RotlOps
                          THEN C18_RotateLeft(w, calc.in0, calc.n)
                          ELSE C18_RotateRight(w, calc.in0, calc.n)

\* C12: for a field of length l >= 1 at position p, inside the register,
\* deposit's result has in bits p .. p+l-1 the low l bits of y and elsewhere
\* the bits of x.
C12_DepositField ==
  calc.stage = 1 /\ calc.opcode \in DepositOps
  /\ calc.l >= 1 /\ calc.p + calc.l <= getRegisterSize(calc.opcode)
    => LET w == getRegisterSize(calc.opcode)
           field == calc.p .. (calc.p + calc.l - 1)
           r == calc.out[1]
       IN /\ {i - calc.p : i \in r \cap field} = calc.in1 \cap Width(calc.l)
          /\ r \ field = calc.in0 \ field

\* C19: deposit returns in0 when the position is the register size, and
\* otherwise (in0 & ~(mask << p)) | ((in1 & mask) << p) with a mask of
\* exactly l one bits, for every length from 1 to the register size.
C19_DepositMask ==
  calc.stage = 1 /\ calc.opcode \in DepositOps
    => LET w == getRegisterSize(calc.opcode)
           mask == Width(calc.l)
       IN IF calc.p = w
            THEN calc.out[1] = calc.in0
            ELSE /\ calc.bits \cap Width(w) = mask
                 /\ calc.out[1] =
                      (calc.in0 \ {i + calc.p : i \in mask})
                      \cup {i + calc.p : i \in calc.in1 \cap mask}


\* The two's complement of a on Bits bits.
C13_Negate(Bits, a) == AddV(Bits, Width(Bits) \ a, {0})

\* The product of two inputs of w bits as a number of 2w bits: unsigned, the
\* product of the inputs; signed, the product of their magnitudes, negated
\* when exactly one input is negative.
C13_Product(Signed, w, a, b) ==
  LET NegA == Signed /\ (w - 1) \in a
      NegB == Signed /\ (w - 1) \in b
      MagA == IF NegA THEN C13_Negate(w, a) ELSE a
      MagB == IF NegB THEN C13_Negate(w, b) ELSE b
      Mag == MulV(2 * w, MagA, MagB)
  IN IF NegA # NegB THEN C13_Negate(2 * w, Mag) ELSE Mag

\* C13: mulu2 and muls2 return two values of the register size, the low half
\* and then the high half of the 2w-bit product of the two inputs, the
\* product unsigned for mulu2 and signed for muls2.
C13_WideMultiply ==
  calc.stage = 1 /\ calc.opcode \in Mul2Ops =>
    LET w == getRegisterSize(calc.opcode)
        P == C13_Product(calc.opcode \in W("muls2"), w, calc.in0, calc.in1)
    IN /\ Len(calc.out) = 2
       /\ calc.out[1] = P \cap Width(w)
       /\ calc.out[2] = {i - w : i \in {j \in P : j >= w}}

\* C13 witness: muls2 of -1 and the largest positive value has run (the
\* high half is all ones, where the unsigned product's is not), and so has
\* mulu2 of the largest value with itself.
C13_Witness ==
  /\ calc.stage = 1 /\ calc.opcode = "muls2_i64"
  /\ calc.in0 = Width(64) /\ calc.in1 = Width(63)
  /\ calc.out[2] = Width(64)

C13_WitnessUnsigned ==
  /\ calc.stage = 1 /\ calc.opcode = "mulu2_i32"
  /\ calc.in0 = Width(32) /\ calc.in1 = Width(32)
  /\ calc.out = << {0}, Width(32) \ {0} >>

\* The blocks that hold operations.
C14_WithContent == { b \in BlockIds : blocks[b].ops # <<>> }

\* The translation of the stream has ended without a fatal failure.
C14_Translated == steps = 5 /\ fatal = ""

\* C14 as stated: after translating [movi r0; add r1 = r0 + r0; exit] the
\* generated code is one block with five operations, and no marker is open.
C14_OneBlockFiveOperations ==
  C14_Translated =>
    /\ \E b \in BlockIds :
         /\ C14_WithContent = {b}
         /\ Len(blocks[b].ops) = 5
    /\ LastMarker = 0

\* What the three instructions emit after the boundary marker: movi stores
\* its constant; add loads both inputs, adds and stores; exit_tb calls exitTB
\* and ends the block.
C14_Emitted ==
  << Op("call_newpc"), Op("store"), Op("load"), Op("load"), Op("binop"),
     Op("store"), Op("call_exitTB"), Op("unreachable") >>

\* C14 amended: the stream's code is one block of eight operations, the
\* boundary marker and the seven the three instructions emit, ending in the
\* exitTB call and unreachable; the insertion point is left in a second,
\* new and empty block; the only other operation in the function is the
\* branch into the stream's block when the boundary diverged into a block
\* known for the address; and no marker is open once the driving loop has
\* closed the last one.
C14_EndToEnd ==
  C14_Translated =>
    /\ \E b \in BlockIds :
         /\ blocks[b].ops = C14_Emitted
         /\ cur # b
         /\ C14_WithContent \subseteq {1, b}
         /\ b # 1 => blocks[1].ops = <<BrOp(b)>>
    /\ blocks[cur].ops = <<>>
    /\ cur = Len(blocks)
    /\ BranchesTo(cur) = {}
    /\ LastMarker = 0
    /\ Len(markers) = 1 /\ markers[1].len > 0

\* C14 witness: the translation has ended, the stream's block holds its
\* eight operations and the insertion point is the empty block after it.
C14_Witness ==
  /\ C14_Translated
  /\ last.call = "closeLastInstruction"
  /\ blocks[1].ops = C14_Emitted
  /\ cur = 2 /\ blocks[2].ops = <<>>
  /\ LastMarker = 0

\* C14 witness: the same when the boundary diverged into the block known for
\* the address.
C14_WitnessDiverged ==
  /\ C14_Translated
  /\ blocks[1].ops = <<BrOp(2)>>
  /\ blocks[2].ops = C14_Emitted
  /\ blocks[cur].ops = <<>>

\* C15: set_label never fails on a label whose block exists, with content or
\* empty: it leaves the insertion point in the label's block, and that
\* block last in the function's block order.
C15_RelocateDefined ==
  last.call = "translate" /\ last.opcode = "set_label" =>
    /\ fatal = ""
    /\ blocks[cur].label # 0
    /\ LabeledBasicBlocks[blocks[cur].label] = cur
    /\ order[Len(order)] = cur

\* C16: a br, brcond or exit_tb that succeeds leaves the insertion point in
\* a block it created itself, empty and the target of no branch (only the
\* false edge of the brcond's own conditional branch leads to it); a
\* set_label that succeeds leaves it in the label's block, the block it
\* left ending in an unconditional branch into that block; and all four
\* reset the per-block variable state.
C16_FreshBlock ==
  [][ last'.call = "translate" /\ fatal' = "" =>
        /\ last'.opcode \in BranchOps \cup {"exit_tb"} =>
             /\ cur' \in (Len(blocks) + 1)..Len(blocks')
             /\ blocks'[cur'].ops = <<>>
             /\ blocks'[cur'].label = 0
             /\ BranchesTo(cur)' = {}
             /\ \A b \in 1..Len(blocks') :
                  \A i \in 1..Len(blocks'[b].ops) :
                    blocks'[b].ops[i].f = cur' =>
                      /\ last'.opcode \in BrcondOps
                      /\ b = cur /\ i = Len(blocks'[b].ops)
             /\ local' = {}
        /\ last'.opcode = "set_label" =>
             /\ \E l \in definedLabels' \ definedLabels :
                  cur' = LabeledBasicBlocks'[l]
             /\ blocks'[cur].ops # <<>>
             /\ blocks'[cur].ops[Len(blocks'[cur].ops)] = BrOp(cur')
             /\ local' = {}
    ]_vars

\* C16 witness: a brcond has left the insertion point in its new empty
\* block, the false edge of its conditional branch, with labelled blocks
\* and branches from before it in the function.
C16_Witness ==
  /\ last.call = "translate" /\ last.opcode \in BrcondOps /\ fatal = ""
  /\ blocks[cur].ops = <<>> /\ local = {}
  /\ \E b \in BlockIds :
       /\ blocks[b].ops # <<>>
       /\ blocks[b].ops[Len(blocks[b].ops)].f = cur
  /\ \E b \in BlockIds : b # cur /\ Cardinality(BranchesTo(b)) >= 2

\* C16 witness: set_label has moved into a block that earlier branches
\* target, and the block it left ends in the branch into it.
C16_WitnessSetLabel ==
  /\ last.call = "translate" /\ last.opcode = "set_label" /\ fatal = ""
  /\ blocks[cur].label # 0 /\ local = {}
  /\ Cardinality(BranchesTo(cur)) >= 2
  /\ blocks[cur].ops = <<>>

\* A qemu_ld / qemu_st was translated without a fatal failure, and none of
\* its operands, the address among them, is the process-state base.
C17_ForeignAddress ==
  /\ last.call = "translate" /\ fatal = ""
  /\ last.opcode \in QemuLdOps \cup QemuStOps
  /\ \A i \in 1..Len(last.args) : ~isEnv(last.args[i])

\* The kinds of the operations in the insertion block.
C17_Kinds == [i \in 1..Len(blocks[cur].ops) |-> blocks[cur].ops[i].k]

\* C17 as stated: a qemu_ld / qemu_st whose address does not come from the
\* process-state base returns the recoverable failure and emits no memory
\* access.
C17_FailOnForeignAddress ==
  C17_ForeignAddress =>
    /\ last.ret
    /\ \A i \in 1..Len(C17_Kinds) : C17_Kinds[i] \notin {"load_mem", "store_mem"}

\* C17 amended: a qemu_ld / qemu_st never returns the recoverable failure,
\* whatever its address operand is: it turns the address into a pointer and
\* emits the memory access, a load for qemu_ld and a store for qemu_st, and
\* no trap sequence.
C17_AccessWhateverAddress ==
  C17_ForeignAddress =>
    /\ ~last.ret
    /\ \E i, j \in 1..Len(C17_Kinds) :
         /\ i < j
         /\ C17_Kinds[i] = "inttoptr"
         /\ C17_Kinds[j] = IF last.opcode \in QemuLdOps THEN "load_mem"
                                                        ELSE "store_mem"
    /\ \A i \in 1..Len(C17_Kinds) : C17_Kinds[i] # "call_abort"

\* C17 witness: a qemu_st whose address is an ordinary register has emitted
\* its store to memory.
C17_Witness ==
  /\ C17_ForeignAddress /\ last.opcode \in QemuStOps
  /\ Len(last.args) = 2 /\ last.args[2] = GPTemp
  /\ C17_Kinds[Len(C17_Kinds)] = "store_mem"

\* C17 witness: a qemu_ld from such an address has loaded and stored its
\* result.
C17_WitnessLoad ==
  /\ C17_ForeignAddress /\ last.opcode \in QemuLdOps
  /\ last.args = <<GPTemp>>
  /\ \E i \in 1..Len(C17_Kinds) : C17_Kinds[i] = "load_mem"
  /\ C17_Kinds[Len(C17_Kinds)] = "store"

\* The swap width the name of a byte-swap opcode states.
C20_SwapBits(Opcode) ==
  CASE Opcode \in {"bswap16_i32", "bswap16_i64"} -> 16
    [] Opcode \in {"bswap32_i32", "bswap32_i64"} -> 32
    [] Opcode = "bswap64_i64" -> 64

\* C20: translating a byte swap succeeds with one result, and what it emits
\* between the load of its input and the store of its result is the
\* truncation to the swap width, the byte reversal and the zero extension
\* to the register width (a cast between equal widths emits nothing).
C20_ByteSwap ==
  last.call = "translate" /\ last.opcode \in BswapOps =>
    LET w == getRegisterSize(last.opcode)
        sw == C20_SwapBits(last.opcode)
    IN /\ fatal = ""
       /\ ~last.ret
       /\ last.nres = 1
       /\ blocks[cur].ops
            = << Op("call_newpc"), Op("load") >>
              \o Cast("trunc", w, sw) \o << Op("call_bswap") >>
              \o Cast("zext", sw, w) \o << Op("store") >>

\* C21: add2 and sub2 return the low and the high half of
\* (in1:in0) op (in3:in2) modulo 2^(2w), where (h:l) is h * 2^w + l with l
\* unsigned; so also when a low half has its most significant bit set.
C21_DoubleWord ==
  calc.stage = 1 /\ calc.opcode \in AddSub2Ops =>
    LET w == getRegisterSize(calc.opcode)
        First == {i + w : i \in calc.in1} \cup calc.in0
        Second == {i + w : i \in calc.in3} \cup calc.in2
        R == IF calc.opcode \in Add2Ops
               THEN AddV(2 * w, First, Second)
               ELSE AddV(2 * w, First,
                         AddV(2 * w, Width(2 * w) \ Second, {0}))
    IN calc.out = << R \cap Width(w), {i - w : i \in {j \in R : j >= w}} >>

\* x < y as unsigned values: the highest bit in which they differ is y's.
C22_Less(x, y) == \E i \in y \ x : \A j \in x \ y : j < i

\* The magnitude of a value of w bits, read as signed or not.
C22_Magnitude(Signed, w, x) ==
  IF Signed /\ (w - 1) \in x THEN AddV(w, Width(w) \ x, {0}) ELSE x

\* The division is defined: the divisor is not zero, and a signed division
\* is not that of the most negative value by -1.
C22_Defined ==
  /\ calc.in2 # {}
  /\ ~(/\ calc.opcode \in W("div2")
        /\ calc.in0 = {getRegisterSize(calc.opcode) - 1}
        /\ calc.in2 = Width(getRegisterSize(calc.opcode)))

\* C22: where the division is defined, div2 and divu2 return the quotient
\* q and then the remainder r of in0 by in2, signed for div2 and unsigned for
\* divu2: |q| * |in2| + |r| = |in0| with |r| < |in2|, q negative only when
\* the signs of in0 and in2 differ and r negative only when in0 is.  And the
\* results do not depend on in1: any other second input gives the same.
C22_DivideIgnoringHigh ==
  calc.stage = 1 /\ calc.opcode \in Div2Ops =>
    LET w == getRegisterSize(calc.opcode)
        Signed == calc.opcode \in W("div2")
        Mag(x) == C22_Magnitude(Signed, w, x)
        Neg(x) == Signed /\ (w - 1) \in x
        q == calc.out[1]
        r == calc.out[2]
    IN /\ Len(calc.out) = 2
       /\ C22_Defined =>
            /\ AddV(2 * w, MulV(2 * w, Mag(q), Mag(calc.in2)), Mag(r))
                 = Mag(calc.in0)
            /\ C22_Less(Mag(r), Mag(calc.in2))
            /\ Neg(q) => Neg(calc.in0) # Neg(calc.in2)
            /\ Neg(r) => Neg(calc.in0)
            /\ q # {} /\ Neg(calc.in0) # Neg(calc.in2) => Neg(q)
            /\ r # {} /\ Neg(calc.in0) => Neg(r)
       /\ \A other \in {{}, {0}, Width(w)} :
            div2Code(calc.opcode, w, calc.in0, other, calc.in2)
              = div2Code(calc.opcode, w, calc.in0, calc.in1, calc.in2)
       /\ C22_Defined =>
            div2Code(calc.opcode, w, calc.in0, calc.in1, calc.in2)
              = {calc.out}

\* C22 witness: div2 of -7 by 2 with the second input all ones has returned
\* -3 and -1.
C22_Witness ==
  /\ calc.stage = 1 /\ calc.opcode = "div2_i32"
  /\ calc.in0 = Width(32) \ {1, 2} /\ calc.in2 = {1}
  /\ calc.in1 = Width(32)
  /\ calc.out = << Width(32) \ {1}, Width(32) >>

\* C22 witness: divu2 of the largest value by 3 with a second input of 1
\* has returned 0x5555555555555555 and 0.
C22_WitnessUnsigned ==
  /\ calc.stage = 1 /\ calc.opcode = "divu2_i64"
  /\ calc.in0 = Width(64) /\ calc.in2 = {0, 1} /\ calc.in1 = {0}
  /\ calc.out = << {i \in Width(64) : i % 2 = 0}, {} >>

\* C23: translating discard succeeds with exactly one result, which is then
\* stored into the discarded slot: the block ends with that store, and no
\* operation computing the value precedes it, the value being a constant.
C23_DiscardStoresZero ==
  last.call = "translate" /\ last.opcode = "discard" =>
    /\ fatal = ""
    /\ ~last.ret
    /\ last.nres = 1
    /\ blocks[cur].ops # <<>>
    /\ blocks[cur].ops[Len(blocks[cur].ops)] = Op("store")
    /\ \A i \in 1..Len(blocks[cur].ops) :
         blocks[cur].ops[i].k \in {"call_newpc", "load", "store", "br"}

\* The state-field accesses narrower than the register, by name.
C24_SignedLoads ==
  { "ld8s_i32", "ld16s_i32", "ld8s_i64", "ld16s_i64", "ld32s_i64" }
C24_UnsignedLoads ==
  { "ld8u_i32", "ld16u_i32", "ld8u_i64", "ld16u_i64", "ld32u_i64" }
C24_NarrowStores ==
  { "st8_i32", "st16_i32", "st8_i64", "st16_i64", "st32_i64" }

\* C24: a state-field access through the process-state base follows the
\* access size and extension of its name: a narrow load emits, after the
\* load of the field, the truncation to the access size and then a sign
\* extension (ld8s, ld16s, ld32s) or a zero extension (ld8u, ld16u, ld32u)
\* to the register width; a narrow store emits the truncation of in0 to the
\* access size right before the store.
C24_StateFieldAccessSize ==
  last.call = "translate" /\ fatal = "" /\ ~last.ret =>
    LET ops == blocks[cur].ops
        at(i, k) == i \in 1..Len(ops) /\ ops[i].k = k
    IN /\ last.opcode \in C24_SignedLoads =>
            \E i \in 1..Len(ops) :
              at(i, "load_env") /\ at(i + 1, "trunc") /\ at(i + 2, "sext")
       /\ last.opcode \in C24_UnsignedLoads =>
            \E i \in 1..Len(ops) :
              at(i, "load_env") /\ at(i + 1, "trunc") /\ at(i + 2, "zext")
       /\ last.opcode \in C24_NarrowStores =>
            \E i \in 1..Len(ops) : at(i, "trunc") /\ at(i + 1, "store_env")

\* What C25 says a qemu_ld / qemu_st of access size s emits after the loads
\* of its operands, for a register of w bits: the pointer, then for a load
\* the access, the byte swap and the extension, and for a store the
\* truncation, the byte swap and the access.
C25_Claimed(Opcode, w, m, differ) ==
  LET align == IF m.access = "unaligned" THEN "1" ELSE "defaultAlignment"
      access(k) == [k |-> k, t |-> 0, f |-> 0, bits |-> m.size, align |-> align]
      swap == IF differ /\ m.size > 8
                THEN << [k |-> "call_bswap", t |-> 0, f |-> 0, bits |-> m.size] >>
                ELSE << >>
      narrow == m.size < w
  IN IF Opcode \in QemuLdOps
       THEN << Op("inttoptr"), access("load_mem") >> \o swap
            \o (IF narrow THEN << Op(IF m.sign THEN "sext" ELSE "zext") >>
                          ELSE << >>)
            \o << Op("store") >>
       ELSE << Op("inttoptr") >>
            \o (IF narrow THEN << Op("trunc") >> ELSE << >>)
            \o swap \o << access("store_mem") >>

\* C25: a qemu_ld / qemu_st of an access size up to the register width that
\* does not end fatally has emitted, after the marker and the loads of its
\* operands, exactly that sequence: a byte swap of the access width exactly
\* when the endianness differs and the access is wider than a byte, after
\* the load and before its sign or zero extension, after the truncation of
\* a store; alignment 1 on an explicitly unaligned access and the source
\* architecture's default otherwise.
C25_MemoryAccessShape ==
  /\ last.call = "translate" /\ fatal = ""
  /\ last.opcode \in QemuLdOps \cup QemuStOps
  /\ last.mem.size <= getRegisterSize(last.opcode)
  => blocks[cur].ops
       = << Op("call_newpc") >>
         \o [i \in 1..Len(last.args) |-> Op("load")]
         \o C25_Claimed(last.opcode, getRegisterSize(last.opcode), last.mem,
                        mismatch)

\* C25 witness: a sign-extending, explicitly unaligned 16-bit qemu_ld_i64
\* across differing endianness has emitted load, byte swap and sign
\* extension.
C25_Witness ==
  /\ last.call = "translate" /\ fatal = "" /\ last.opcode = "qemu_ld_i64"
  /\ mismatch
  /\ last.mem = [size |-> 16, sign |-> TRUE, access |-> "unaligned"]
  /\ \E i \in 1..Len(blocks[cur].ops) :
       /\ blocks[cur].ops[i].k = "load_mem"
       /\ blocks[cur].ops[i].align = "1"
       /\ blocks[cur].ops[i + 1].k = "call_bswap"
       /\ blocks[cur].ops[i + 2].k = "sext"

\* C25 witness: an aligned byte store across differing endianness has
\* truncated and stored without a byte swap.
C25_WitnessByteStore ==
  /\ last.call = "translate" /\ fatal = "" /\ last.opcode = "qemu_st_i32"
  /\ mismatch
  /\ last.mem.size = 8 /\ last.mem.access = "aligned"
  /\ \A i \in 1..Len(blocks[cur].ops) : blocks[cur].ops[i].k # "call_bswap"
  /\ blocks[cur].ops[Len(blocks[cur].ops)].k = "store_mem"
  /\ blocks[cur].ops[Len(blocks[cur].ops)].align = "defaultAlignment"

\* What the claim of C26 has a call-like operation add to the current block:
\* one load per input in order, one call of "helper_" + name on the loaded
\* values, and the store of the result into the output slot when there is
\* one output.
C26_Claimed(InArguments, OutArguments, helperName) ==
  [i \in 1..Len(InArguments) |-> Op("load") @@ [of |-> InArguments[i]]]
  \o << Op("call_helper") @@ [name |-> "helper_" \o helperName,
                              args |-> InArguments,
                              void |-> (Len(OutArguments) = 0)] >>
  \o (IF Len(OutArguments) = 1
        THEN << Op("store") @@ [to |-> OutArguments[1]] >>
        ELSE << >>)

C26_WitnessNoOutput ==
  /\ last.call = "translateCall" /\ fatal = ""
  /\ Len(last.args) = 1 /\ Len(last.outs) = 0
  /\ blocks[cur].ops[Len(blocks[cur].ops)].k = "call_helper"

\* A call with two outputs has ended in the assertion.
C26_WitnessTwoOutputs ==
  /\ last.call = "translateCall" /\ fatal # ""
  /\ Len(last.outs) = 2

\* C27: a new instruction that is not the first and not an early exit
\* registers with control-flow discovery once after opening the marker:
\* registerBlock(PC, current block) when the new marker is the first
\* operation of the current block, registerInstruction(PC, marker)
\* otherwise.  The first instruction registers nothing.
C27_RegisterOnce ==
  [][ last'.call = "newInstruction" /\ fatal' = "" /\ ~last'.ret
      => IF last'.first
           THEN JT' = JT /\ regInstr' = regInstr
           ELSE IF blocks'[cur'].ops = << Op("call_newpc") >>
             THEN /\ JT' = [JT EXCEPT ![last'.pc] = cur']
                  /\ regInstr' = regInstr
             ELSE /\ JT' = JT
                  /\ regInstr' = regInstr \cup {<< last'.pc, LastMarker' >>}
    ]_vars

\* The addresses the claim of C28 has translate request a block for: the
\* constants stored into the program-counter slot that differ from the
\* address of the current instruction.
C28_Targets(OutArguments, Result, PC) ==
  { Result[i].val : i \in { j \in 1..Len(Result) :
                               /\ OutArguments[j] = PCTemp
                               /\ Result[j].const
                               /\ Result[j].val # PC } }

\* C28: a translate call that stores its results asks control-flow discovery
\* for a block (getBlockAt) for exactly the addresses that are compile-time
\* constants stored into the program-counter slot and differ from the
\* current instruction's address; each of these has a block afterwards and
\* no other address's block changes.  A translate call that stores nothing
\* asks for none and leaves the jump targets alone.
C28_ExploreImmediatePC ==
  [][ last'.call = "translate" /\ fatal' = ""
      => LET Targets == IF last'.ret THEN {}
                        ELSE C28_Targets(last'.outs, last'.res, last'.pc)
         IN /\ last'.asked = Targets
            /\ \A a \in PCs : IF a \in Targets /\ JT[a] = 0
                                THEN /\ JT'[a] \notin 1..Len(blocks)
                                     /\ JT'[a] \in 1..Len(blocks')
                                     /\ blocks'[JT'[a]].ops = << >>
                                ELSE JT'[a] = JT[a]
            /\ regInstr' = regInstr
    ]_vars

\* A constant other than the current address has been stored into the
\* program-counter slot and a block was requested for it.
C28_Witness ==
  /\ last.call = "translate" /\ fatal = "" /\ ~last.ret
  /\ last.opcode \in MoviOps /\ last.outs = << PCTemp >>
  /\ last.res[1].val # last.pc
  /\ last.asked = {last.res[1].val}
  /\ JT[last.res[1].val] # 0

\* The current instruction's own address has been stored into the
\* program-counter slot, and no block was requested.
C28_WitnessOwnAddress ==
  /\ last.call = "translate" /\ fatal = "" /\ ~last.ret
  /\ last.opcode \in MoviOps /\ last.outs = << PCTemp >>
  /\ last.res[1].val = last.pc
  /\ last.asked = {}

\* A value that is not a constant has been stored into the program-counter
\* slot, and no block was requested.
C28_WitnessComputed ==
  /\ last.call = "translate" /\ fatal = "" /\ ~last.ret
  /\ last.outs = << PCTemp >> /\ ~last.res[1].const
  /\ last.asked = {}

\* The Input after the deduced results of the first n contracts have been
\* applied to a copy of it in order.
RECURSIVE C29_Applied(_, _, _)
C29_Applied(Contracts, Input, n) ==
  IF n = 0 THEN Input
  ELSE Contract_deduceResults(Contracts[n],
                              C29_Applied(Contracts, Input, n - 1))

\* C29: areRequirementsMet returns true when the pipe has no contracts;
\* otherwise it returns true if and only if some contract k forward-matches
\* the Input to which the deduced results of the contracts before k have
\* been applied in order; the caller's Input is the same map afterwards.
C29_RequirementsMet ==
  [][ pipe'.called /\ ~pipe.called
      => /\ pipe'.ret
              = \/ Len(pipe.Contracts) = 0
                \/ \E k \in 1..Len(pipe.Contracts) :
                     Contract_forwardMatches(
                       pipe.Contracts[k],
                       C29_Applied(pipe.Contracts, pipe.Input, k - 1))
         /\ pipe'.Input = pipe.Input
         /\ pipe'.Contracts = pipe.Contracts
    ]_vars

\* The pipe answered true on a contract that does not match the Input as it
\* was handed in and matches once the contract before it has been applied.
C29_Witness ==
  /\ pipe.called /\ pipe.ret
  /\ Len(pipe.Contracts) = 2
  /\ \A k \in 1..2 : ~Contract_forwardMatches(pipe.Contracts[k], pipe.Input)

\* The pipe without contracts answered true on an empty Input.
C29_WitnessNoContracts ==
  /\ pipe.called /\ pipe.ret
  /\ pipe.Contracts = << >> /\ pipe.Input = {}

\* The pipe answered false although it has contracts.
C29_WitnessUnmet ==
  /\ pipe.called /\ ~pipe.ret
  /\ Len(pipe.Contracts) = 2 /\ pipe.Input # {}

====
